---------------------------- MODULE Spec2Model ----------------------------
(***************************************************************************)
(* nova-easing: the generic easing-function engine of src/src/lib.rs.      *)
(*                                                                         *)
(* A float is modelled as a pair <<n, d>>: for d > 0 the rational n/d in   *)
(* lowest terms, and for d = 0 an IEEE-754 special value (<<0,0>> is NaN,  *)
(* <<1,0>> is +Inf, <<-1,0>> is -Inf).  The four arithmetic operations and *)
(* mul_add are exact while the result fits 32-bit integers and rounded to  *)
(* a multiple of 2^-24 where it does not; the library functions sin, cos,  *)
(* exp, ln, sqrt and powf return the true value rounded to a multiple of   *)
(* 2^-21 (exactly where the true value is rational and representable), the *)
(* way libm returns the true value rounded to the float format.  A decimal *)
(* literal of the source denotes its decimal value; std::f32::consts::PI   *)
(* and FRAC_PI_2 denote the f32 nearest to pi and pi/2.  The sign of zero  *)
(* is not modelled.  A SIMD vector is a sequence of Lanes floats and a     *)
(* mask a sequence of Lanes booleans.                                      *)
(***************************************************************************)
EXTENDS Integers, Sequences, FiniteSets, TLC

VARIABLES fn, rep, arg, crv, res

vars == <<fn, rep, arg, crv, res>>

(***************************************************************************)
(* Floats: rationals and IEEE special values                               *)
(***************************************************************************)
NaN == <<0, 0>>
PosInf == <<1, 0>>
NegInf == <<-1, 0>>

IsNaN(a) == a[2] = 0 /\ a[1] = 0
IsInf(a) == a[2] = 0 /\ a[1] # 0
IsFinite(a) == a[2] > 0

Abs(i) == IF i < 0 THEN -i ELSE i
Sgn(i) == IF i < 0 THEN -1 ELSE IF i > 0 THEN 1 ELSE 0

RECURSIVE Gcd(_, _)
Gcd(a, b) == IF b = 0 THEN a ELSE Gcd(b, a % b)

\* n/d in lowest terms with a positive denominator (d # 0)
Q(n, d) ==
    LET g == Gcd(Abs(n), Abs(d))
        s == IF d < 0 THEN -1 ELSE 1
    IN  <<s * (n \div g), s * (d \div g)>>

Zero == <<0, 1>>
One == <<1, 1>>

FNeg(a) == <<-a[1], a[2]>>
FAbs(a) == <<Abs(a[1]), a[2]>>

\* long division: k more digits of w bits each of (q + r/d), 0 <= r < d
RECURSIVE FixDigits(_, _, _, _, _)
FixDigits(q, r, d, k, w) ==
    IF k = 0 \/ r = 0 THEN q * 2 ^ (k * w)
    ELSE FixDigits(q * 2 ^ w + ((r * 2 ^ w) \div d), (r * 2 ^ w) % d, d, k - 1, w)

\* floor(a * 2^bits) of a finite a (bits a multiple of 4)
ToFix(a, bits) ==
    IF a[2] < 2 ^ 27 THEN FixDigits(a[1] \div a[2], a[1] % a[2], a[2], bits \div 4, 4)
    ELSE FixDigits(a[1] \div a[2], a[1] % a[2], a[2], bits, 1)

\* |x * y| < 2^30: the product fits the integers of the model
Fits(x, y) == y = 0 \/ Abs(x) <= (2 ^ 30 - 1) \div Abs(y)

\* floor(A * n / d) for 0 <= A < 2^(bit+1), n >= 0, 0 < d < 2^29, one bit of A at a time
RECURSIVE MulDivBits(_, _, _, _, _, _)
MulDivBits(A, n, d, bit, q, r) ==
    IF bit < 0 \/ q < 0 THEN q
    ELSE LET b == (A \div 2 ^ bit) % 2
             t == 2 * r + b * (n % d)
         IN  MulDivBits(A, n, d, bit - 1, 2 * q + b * (n \div d) + (t \div d), t % d)

\* A sum or a product is exact while its numerator and denominator fit the
\* integers of the model, and is rounded to a multiple of 2^-24 (the
\* precision of an f32 near 1) where they do not.
FAdd(a, b) ==
    IF IsNaN(a) \/ IsNaN(b) THEN NaN
    ELSE IF IsInf(a) THEN (IF IsInf(b) /\ a[1] # b[1] THEN NaN ELSE a)
    ELSE IF IsInf(b) THEN b
    ELSE LET g == Gcd(a[2], b[2])
             da == a[2] \div g
             db == b[2] \div g
         IN  IF Fits(a[1], db) /\ Fits(b[1], da) /\ Fits(a[2], db)
             THEN Q(a[1] * db + b[1] * da, a[2] * db)
             ELSE Q(ToFix(a, 24) + ToFix(b, 24), 2 ^ 24)

FSub(a, b) == FAdd(a, FNeg(b))

RECURSIVE BitLen(_)
BitLen(n) == IF n = 0 THEN 0 ELSE 1 + BitLen(n \div 2)

RECURSIVE IsPow2(_)
IsPow2(n) == n = 1 \/ (n > 1 /\ n % 2 = 0 /\ IsPow2(n \div 2))

FMul(a, b) ==
    IF IsNaN(a) \/ IsNaN(b) THEN NaN
    ELSE IF IsInf(a) \/ IsInf(b)
         THEN (IF a[1] = 0 \/ b[1] = 0 THEN NaN ELSE <<Sgn(a[1]) * Sgn(b[1]), 0>>)
    ELSE LET g1 == Gcd(Abs(a[1]), b[2])
             g2 == Gcd(Abs(b[1]), a[2])
             n1 == a[1] \div g1
             n2 == b[1] \div g2
             d1 == a[2] \div g2
             d2 == b[2] \div g1
         IN  IF Fits(n1, n2) /\ Fits(d1, d2) THEN <<n1 * n2, d1 * d2>>
             ELSE LET x == IF a[2] >= b[2] THEN a ELSE b
                      y == IF a[2] >= b[2] THEN b ELSE a
                      m == MulDivBits(ToFix(FAbs(x), 24), Abs(y[1]), y[2], 30, 0, 0)
                  IN  Q(Sgn(x[1]) * Sgn(y[1]) * m, 2 ^ 24)

FDiv(a, b) ==
    IF IsNaN(a) \/ IsNaN(b) THEN NaN
    ELSE IF IsInf(b) THEN (IF IsInf(a) THEN NaN ELSE Zero)
    ELSE IF b[1] = 0 THEN (IF a[1] = 0 THEN NaN ELSE <<Sgn(a[1]), 0>>)
    ELSE FMul(a, <<Sgn(b[1]) * b[2], Abs(b[1])>>)

\* IEEE comparisons: every comparison with NaN is false
FLt(a, b) ==
    IF IsNaN(a) \/ IsNaN(b) THEN FALSE
    ELSE IF IsInf(a) \/ IsInf(b)
         THEN (IF IsInf(a) /\ IsInf(b) THEN a[1] < b[1]
               ELSE IF IsInf(a) THEN a[1] < 0 ELSE b[1] > 0)
    ELSE Sgn(FSub(a, b)[1]) < 0
FEq(a, b) == ~IsNaN(a) /\ ~IsNaN(b) /\ a = b

(***************************************************************************)
(* Library functions (std / libm), computed in 32-bit-safe fixed point     *)
(***************************************************************************)
\* results of the library functions lie on the grid 2^-21; the series are
\* summed at the working scale 2^-28 on arguments reduced at the scale 2^-24
Grid == 2 ^ 21
Work == 2 ^ 28
\* round(ln 2 * 2^24) and round(pi/2 * 2^24)
LN2_24 == 11629080
PIH_24 == 26353589

\* floor(a * b / 2^28) of two numbers at scale 2^-28, |a|, |b| <= 2^29
FxMul(a, b) ==
    LET K == 2 ^ 14
        a1 == a \div K
        a0 == a % K
        b1 == b \div K
        b0 == b % K
    IN  a1 * b1 + ((a1 * b0 + a0 * b1 + ((a0 * b0) \div K)) \div K)

\* v / 2^s rounded to nearest (s >= 1)
RoundShift(v, s) == (v + 2 ^ (s - 1)) \div (2 ^ s)

\* a number at the working scale, rounded to the grid

RECURSIVE ExpTerms(_, _, _, _)
ExpTerms(r, term, k, acc) ==
    IF k > 12 \/ term = 0 THEN acc
    ELSE LET t2 == FxMul(term, r) \div k
         IN  ExpTerms(r, t2, k + 1, acc + t2)

StdExp(x) ==
    IF IsNaN(x) THEN NaN
    ELSE IF IsInf(x) THEN (IF x[1] > 0 THEN PosInf ELSE Zero)
    ELSE IF x[1] = 0 THEN One
    ELSE IF ~FLt(x, <<21, 1>>) THEN PosInf
    ELSE IF FLt(x, <<-16, 1>>) THEN Zero
    ELSE LET xf == ToFix(x, 24)
             m == (xf + (LN2_24 \div 2)) \div LN2_24
             r == (xf - m * LN2_24) * 16
             e == ExpTerms(r, Work, 1, Work)
         IN  IF m < 0 THEN Q(RoundShift(e, 7 - m), Grid)
             ELSE IF m <= 21 THEN Q(RoundShift(e, 7), 2 ^ (21 - m))
             ELSE <<RoundShift(e, 7) * 2 ^ (m - 21), 1>>

RECURSIVE LnTerms(_, _, _, _)
LnTerms(zp, z2, k, acc) ==
    IF k > 21 \/ zp = 0 THEN acc
    ELSE LnTerms(FxMul(zp, z2), z2, k + 2, acc + (zp \div k))

\* ln of y * 2^m with 3/4 <= y < 3/2
LnCore(y, m) ==
    LET z == ToFix(Q(y[1] - y[2], y[1] + y[2]), 28)
        s == LnTerms(z, FxMul(z, z), 1, 0)
        l24 == RoundShift(2 * s, 4) + m * LN2_24
    IN  Q(RoundShift(l24, 3), Grid)

\* the number of bits of n >= 0
\* x > 0 as y * 2^m with 3/4 <= y < 3/2
LnScaled(x) ==
    LET m0 == BitLen(x[1]) - BitLen(x[2])
        y0 == IF m0 >= 0 THEN Q(x[1], x[2] * 2 ^ m0) ELSE Q(x[1] * 2 ^ (0 - m0), x[2])
    IN  IF ~FLt(y0, <<3, 2>>) THEN LnCore(Q(y0[1], 2 * y0[2]), m0 + 1)
        ELSE IF FLt(y0, <<3, 4>>) THEN LnCore(Q(2 * y0[1], y0[2]), m0 - 1)
        ELSE LnCore(y0, m0)

StdLn(x) ==
    IF IsNaN(x) THEN NaN
    ELSE IF IsInf(x) THEN (IF x[1] > 0 THEN PosInf ELSE NaN)
    ELSE IF x[1] < 0 THEN NaN
    ELSE IF x[1] = 0 THEN NegInf
    ELSE IF x = One THEN Zero
    ELSE LnScaled(x)

RECURSIVE AltTerms(_, _, _, _)
AltTerms(term, r2, k, acc) ==
    IF k > 15 \/ term = 0 THEN acc
    ELSE LET t2 == (0 - FxMul(term, r2)) \div (k * (k + 1))
         IN  AltTerms(t2, r2, k + 2, acc + t2)

\* <<sin x, cos x>> at scale 2^-28 of a finite x, |x| < 128
SinCos(x) ==
    LET xf == ToFix(x, 24)
        k == (xf + (PIH_24 \div 2)) \div PIH_24
        r == (xf - k * PIH_24) * 16
        r2 == FxMul(r, r)
        s == AltTerms(r, r2, 2, r)
        c == AltTerms(Work, r2, 1, Work)
        q == k % 4
    IN  IF q = 0 THEN <<s, c>>
        ELSE IF q = 1 THEN <<c, 0 - s>>
        ELSE IF q = 2 THEN <<0 - s, 0 - c>>
        ELSE <<0 - c, s>>

StdSin(x) == IF IsFinite(x) THEN Q(RoundShift(SinCos(x)[1], 7), Grid) ELSE NaN
StdCos(x) == IF IsFinite(x) THEN Q(RoundShift(SinCos(x)[2], 7), Grid) ELSE NaN

\* floor(sqrt(n)) of 0 <= n < 2^31, by bisection on the bits of the root
RECURSIVE ISqrtBits(_, _, _)
ISqrtBits(n, s, bit) ==
    IF bit < 0 \/ s < 0 THEN s
    ELSE LET c == s + 2 ^ bit
         IN  ISqrtBits(n, IF c <= 46340 /\ c * c <= n THEN c ELSE s, bit - 1)
ISqrt(n) == ISqrtBits(n, 0, 15)
IsSquare(n) == ISqrt(n) * ISqrt(n) = n

\* floor(sqrt(xf / 2^28) * 2^21) of 0 <= xf < 2^29
RECURSIVE FixSqrtBits(_, _, _)
FixSqrtBits(xf, s, bit) ==
    IF bit < 0 \/ s < 0 \/ xf < 0 THEN s
    ELSE LET c == s + 2 ^ bit
             a == c \div 128
             b == c % 128
             sq == a * a + ((256 * a * b + b * b + 16383) \div 16384)
         IN  FixSqrtBits(xf, IF sq <= xf THEN c ELSE s, bit - 1)

RECURSIVE StdSqrt(_)
StdSqrt(x) ==
    IF IsNaN(x) THEN NaN
    ELSE IF IsInf(x) THEN (IF x[1] > 0 THEN PosInf ELSE NaN)
    ELSE IF x[1] < 0 THEN NaN
    ELSE IF IsSquare(x[1]) /\ IsSquare(x[2]) THEN <<ISqrt(x[1]), ISqrt(x[2])>>
    ELSE IF ~FLt(x, <<2, 1>>) THEN FMul(<<2, 1>>, StdSqrt(Q(x[1], 4 * x[2])))
    ELSE Q(FixSqrtBits(ToFix(x, 28), 0, 21), Grid)

\* x^n for n >= 0 by repeated multiplication
RECURSIVE IntPow(_, _)
IntPow(x, n) == IF n = 0 THEN One ELSE FMul(x, IntPow(x, n - 1))

\* f32::powi / f64::powi: total over the signed exponent
StdPowi(x, n) == IF n >= 0 THEN IntPow(x, n) ELSE FDiv(One, IntPow(x, -n))

\* f32::powf / f64::powf (IEEE pow): x^0 = 1 and 1^y = 1 for every x and y,
\* exact where the power is representable, the rounded true value elsewhere
StdPowf(x, y) ==
    IF IsFinite(y) /\ y[1] = 0 THEN One
    ELSE IF x = One THEN One
    ELSE IF IsNaN(x) \/ IsNaN(y) THEN NaN
    ELSE IF y = One THEN x
    ELSE IF IsFinite(x) /\ x[1] = 0
         THEN (IF Sgn(y[1]) > 0 THEN Zero ELSE PosInf)
    ELSE IF IsFinite(x) /\ y[2] = 1 /\ x[1] > 0 /\ IsPow2(x[1]) /\ IsPow2(x[2])
              /\ Abs(y[1]) <= 30
         THEN StdPowi(x, y[1])
    ELSE IF Sgn(x[1]) < 0 THEN (IF y[2] = 1 THEN StdPowi(x, y[1]) ELSE NaN)
    ELSE StdExp(FMul(y, StdLn(x)))

StdMulAdd(a, b, c) == FAdd(FMul(a, b), c)

(***************************************************************************)
(* Representations: the scalar floats and the SIMD vectors of Lanes lanes  *)
(***************************************************************************)
Lanes == 4
Reps == {"scalar", "simd"}

\* A vector is a sequence of Lanes values, held as a tuple.
\* Simd::splat
Splat(x) == SubSeq([i \in 1..Lanes |-> x], 1, Lanes)

\* a faulty variant: every lane holds the comparison of the first lanes
simd_lt_lane1(a, b) ==
    SubSeq([i \in 1..Lanes |-> FLt(a[1], b[1])], 1, Lanes)

\* SimdPartialOrd::simd_lt and SimdPartialEq::simd_eq: one boolean for every lane
simd_lt(a, b) ==
    SubSeq([i \in 1..Lanes |-> FLt(a[i], b[i])], 1, Lanes)
simd_eq(a, b) == SubSeq([i \in 1..Lanes |-> FEq(a[i], b[i])], 1, Lanes)
\* a faulty variant: the mask of the first lane decides for every lane
select_lane1(mask, a, b) ==
    SubSeq([i \in 1..Lanes |-> IF mask[1] THEN a[i] ELSE b[i]], 1, Lanes)

\* Mask::select: lane i of a where the mask is set, lane i of b elsewhere
select(mask, a, b) ==
    SubSeq([i \in 1..Lanes |-> IF mask[i] THEN a[i] ELSE b[i]], 1, Lanes)

\* a faulty variant: a scalar parameter reaches the first lane only
to_curve_lane1(T, c) ==
    IF T = "scalar" THEN c[1]
    ELSE IF Len(c) = 1 THEN SubSeq([i \in 1..Lanes |-> IF i = 1 THEN c[1] ELSE Zero], 1, Lanes)
    ELSE c

\* CurveParam::to_curve: a scalar parameter is splatted for a vector value,
\* a vector parameter is used unchanged.  A parameter is <<c>> (scalar) or
\* <<c1, .., cLanes>> (vector).
to_curve(T, c) ==
    IF T = "scalar" THEN c[1]
    ELSE IF Len(c) = 1 THEN Splat(c[1]) ELSE c

(***************************************************************************)
(* trait EasingImplHelper: the numeric operations of a representation T    *)
(***************************************************************************)
from_f32(T, x) == IF T = "scalar" THEN x ELSE Splat(x)

\* the operators and the library functions of a representation: of the scalar
\* itself, and of every lane of a vector
add(T, a, b) ==
    IF T = "scalar" THEN FAdd(a, b)
    ELSE SubSeq([i \in 1..Lanes |-> FAdd(a[i], b[i])], 1, Lanes)
sub(T, a, b) ==
    IF T = "scalar" THEN FSub(a, b)
    ELSE SubSeq([i \in 1..Lanes |-> FSub(a[i], b[i])], 1, Lanes)
mul(T, a, b) ==
    IF T = "scalar" THEN FMul(a, b)
    ELSE SubSeq([i \in 1..Lanes |-> FMul(a[i], b[i])], 1, Lanes)
div(T, a, b) ==
    IF T = "scalar" THEN FDiv(a, b)
    ELSE SubSeq([i \in 1..Lanes |-> FDiv(a[i], b[i])], 1, Lanes)
neg(T, a) ==
    IF T = "scalar" THEN FNeg(a) ELSE SubSeq([i \in 1..Lanes |-> FNeg(a[i])], 1, Lanes)
abs(T, a) ==
    IF T = "scalar" THEN FAbs(a) ELSE SubSeq([i \in 1..Lanes |-> FAbs(a[i])], 1, Lanes)

sin(T, a) ==
    IF T = "scalar" THEN StdSin(a) ELSE SubSeq([i \in 1..Lanes |-> StdSin(a[i])], 1, Lanes)
cos(T, a) ==
    IF T = "scalar" THEN StdCos(a) ELSE SubSeq([i \in 1..Lanes |-> StdCos(a[i])], 1, Lanes)
\* a faulty variant: the square root of the absolute value
sqrt_abs(T, a) ==
    IF T = "scalar" THEN StdSqrt(FAbs(a))
    ELSE SubSeq([i \in 1..Lanes |-> StdSqrt(FAbs(a[i]))], 1, Lanes)

sqrt(T, a) ==
    IF T = "scalar" THEN StdSqrt(a) ELSE SubSeq([i \in 1..Lanes |-> StdSqrt(a[i])], 1, Lanes)
exp(T, a) ==
    IF T = "scalar" THEN StdExp(a) ELSE SubSeq([i \in 1..Lanes |-> StdExp(a[i])], 1, Lanes)
ln(T, a) ==
    IF T = "scalar" THEN StdLn(a) ELSE SubSeq([i \in 1..Lanes |-> StdLn(a[i])], 1, Lanes)
mul_add(T, self, a, b) ==
    IF T = "scalar" THEN StdMulAdd(self, a, b)
    ELSE SubSeq([i \in 1..Lanes |-> StdMulAdd(self[i], a[i], b[i])], 1, Lanes)
double(T, self) == add(T, self, self)

\* Simd powi: exponentiation by squaring down to the base case n = 1
RECURSIVE Simd_powi(_, _)
\* a faulty variant: an odd exponent is halved like an even one
Simd_powi_halved(self, n) ==
    IF n = 1 THEN self
    ELSE LET tmp == Simd_powi(self, n \div 2) IN mul("simd", tmp, tmp)

Simd_powi(self, n) ==
    IF n = 1 THEN self
    ELSE IF n % 2 = 0
         THEN LET tmp == Simd_powi(self, n \div 2) IN mul("simd", tmp, tmp)
    ELSE mul("simd", self, Simd_powi(self, n - 1))

powi(T, self, n) == IF T = "scalar" THEN StdPowi(self, n) ELSE Simd_powi(self, n)

\* Simd powf: exp(other * ln(self))
Simd_powf(self, other) == exp("simd", mul("simd", other, ln("simd", self)))

powf(T, self, other) ==
    IF T = "scalar" THEN StdPowf(self, other) ELSE Simd_powf(self, other)

ease_in_pow(T, self, n) == powi(T, self, n)

\* a faulty variant: the power of self - 1 in place of 1 - self
ease_out_pow_flipped(T, self, n) ==
    LET one == from_f32(T, One)
    IN  sub(T, one, powi(T, sub(T, self, one), n))

ease_out_pow(T, self, n) ==
    LET one == from_f32(T, One)
    IN  sub(T, one, powi(T, sub(T, one, self), n))

(***************************************************************************)
(* impl EasingImplHelper for the scalar floats                             *)
(***************************************************************************)
\* a faulty variant: the upper half is not halved
Scalar_ease_in_out_quad_nohalf(self) ==
    LET half == Q(1, 2)
        one == One
        two == Q(2, 1)
    IN  IF FLt(self, half) THEN FMul(two, StdPowi(self, 2))
        ELSE FSub(one, StdPowi(FSub(FMul(two, self), two), 2))

Scalar_ease_in_out_quad(self) ==
    LET half == Q(1, 2)
        one == One
        two == Q(2, 1)
    IN  IF FLt(self, half) THEN FMul(two, StdPowi(self, 2))
        ELSE FSub(one, FMul(StdPowi(FSub(FMul(two, self), two), 2), half))

\* a faulty variant: the lower half carries the coefficient of the quartic form
Scalar_ease_in_out_cubic_coeff8(self) ==
    LET half == Q(1, 2)
    IN  IF FLt(self, half)
        THEN FMul(Q(8, 1), StdPowi(self, 3))
        ELSE LET one == One
                 two == Q(2, 1)
             IN  FSub(one, FMul(StdPowi(FSub(two, FAdd(self, self)), 3), half))

Scalar_ease_in_out_cubic(self) ==
    LET half == Q(1, 2)
    IN  IF FLt(self, half)
        THEN LET cubed == StdPowi(self, 3)
                 doubled == FAdd(cubed, cubed)
             IN  FAdd(doubled, doubled)
        ELSE LET one == One
                 two == Q(2, 1)
             IN  FSub(one, FMul(StdPowi(FSub(two, FAdd(self, self)), 3), half))

\* a faulty variant: the lower half keeps the coefficient of the cubic form
Scalar_ease_in_out_quart_coeff4(self) ==
    LET half == Q(1, 2)
    IN  IF FLt(self, half) THEN FMul(Q(4, 1), StdPowi(self, 4))
        ELSE LET one == One
                 two == Q(2, 1)
             IN  FSub(one, FMul(StdPowi(FSub(two, FAdd(self, self)), 4), half))

Scalar_ease_in_out_quart(self) ==
    LET half == Q(1, 2)
    IN  IF FLt(self, half) THEN FMul(Q(8, 1), StdPowi(self, 4))
        ELSE LET one == One
                 two == Q(2, 1)
             IN  FSub(one, FMul(StdPowi(FSub(two, FAdd(self, self)), 4), half))

\* a faulty variant: the upper half is not halved
Scalar_ease_in_out_quint_upper(self) ==
    LET half == Q(1, 2)
    IN  IF FLt(self, half) THEN FMul(Q(16, 1), StdPowi(self, 5))
        ELSE LET one == One
                 two == Q(2, 1)
             IN  FSub(one, StdPowi(FSub(two, FAdd(self, self)), 5))

Scalar_ease_in_out_quint(self) ==
    LET half == Q(1, 2)
    IN  IF FLt(self, half) THEN FMul(Q(16, 1), StdPowi(self, 5))
        ELSE LET one == One
                 two == Q(2, 1)
             IN  FSub(one, FMul(StdPowi(FSub(two, FAdd(self, self)), 5), half))

Scalar_ease_in_out_back(self) ==
    LET c2 == FMul(Q(170158, 100000), Q(1525, 1000))
        half == Q(1, 2)
        two == Q(2, 1)
    IN  IF FLt(self, half)
        THEN LET two_x == FAdd(self, self)
                 pow_two_x_2 == StdPowi(two_x, 2)
                 inner == StdMulAdd(FAdd(c2, One), two_x, FNeg(c2))
             IN  FMul(FMul(pow_two_x_2, inner), half)
        ELSE LET two_x_minus_2 == FSub(FAdd(self, self), two)
                 pow_two_x_minus_2_2 == StdPowi(two_x_minus_2, 2)
                 inner == StdMulAdd(FAdd(c2, One), FSub(FAdd(self, self), two), c2)
             IN  FMul(StdMulAdd(pow_two_x_minus_2_2, inner, two), half)

\* a faulty variant: the second branch keeps the offset of the third
Scalar_ease_out_bounce_offset(self) ==
    LET n1 == Q(75625, 10000)
        one_over_d1 == FDiv(Q(1, 1), Q(275, 100))
        two_over_d1 == FDiv(Q(2, 1), Q(275, 100))
        two_point_five_over_d1 == FDiv(Q(25, 10), Q(275, 100))
    IN  IF FLt(self, one_over_d1) THEN FMul(FMul(n1, self), self)
        ELSE IF FLt(self, two_over_d1)
             THEN LET adjusted == FSub(self, FDiv(Q(225, 100), Q(275, 100)))
                  IN  StdMulAdd(FMul(adjusted, adjusted), n1, Q(75, 100))
        ELSE IF FLt(self, two_point_five_over_d1)
             THEN LET adjusted == FSub(self, FDiv(Q(225, 100), Q(275, 100)))
                  IN  StdMulAdd(FMul(adjusted, adjusted), n1, Q(9375, 10000))
        ELSE LET adjusted == FSub(self, FDiv(Q(2625, 1000), Q(275, 100)))
             IN  StdMulAdd(FMul(adjusted, adjusted), n1, Q(984375, 1000000))

Scalar_ease_out_bounce(self) ==
    LET n1 == Q(75625, 10000)
        one_over_d1 == FDiv(Q(1, 1), Q(275, 100))
        two_over_d1 == FDiv(Q(2, 1), Q(275, 100))
        two_point_five_over_d1 == FDiv(Q(25, 10), Q(275, 100))
    IN  IF FLt(self, one_over_d1) THEN FMul(FMul(n1, self), self)
        ELSE IF FLt(self, two_over_d1)
             THEN LET adjusted == FSub(self, FDiv(Q(15, 10), Q(275, 100)))
                  IN  StdMulAdd(FMul(adjusted, adjusted), n1, Q(75, 100))
        ELSE IF FLt(self, two_point_five_over_d1)
             THEN LET adjusted == FSub(self, FDiv(Q(225, 100), Q(275, 100)))
                  IN  StdMulAdd(FMul(adjusted, adjusted), n1, Q(9375, 10000))
        ELSE LET adjusted == FSub(self, FDiv(Q(2625, 1000), Q(275, 100)))
             IN  StdMulAdd(FMul(adjusted, adjusted), n1, Q(984375, 1000000))

Scalar_ease_in_out_bounce(self) ==
    LET half == Q(1, 2)
        one == One
    IN  IF FLt(self, half)
        THEN FMul(FSub(one, Scalar_ease_out_bounce(FSub(one, FAdd(self, self)))), half)
        ELSE FMul(FAdd(one, Scalar_ease_out_bounce(FSub(FAdd(self, self), one))), half)

\* a faulty variant: the formula without the check of the endpoint
Scalar_ease_in_expo_unchecked(self) ==
    StdPowf(Q(2, 1), StdMulAdd(Q(10, 1), self, FNeg(Q(10, 1))))

Scalar_ease_in_expo(self) ==
    IF FEq(self, Zero) THEN Zero
    ELSE StdPowf(Q(2, 1), StdMulAdd(Q(10, 1), self, FNeg(Q(10, 1))))

Scalar_ease_out_expo(self) ==
    IF FEq(self, One) THEN One
    ELSE StdMulAdd(StdPowf(Q(2, 1), FMul(FNeg(Q(10, 1)), self)), FNeg(One), One)

Scalar_ease_in_out_expo(self) ==
    IF FEq(self, Zero) THEN Zero
    ELSE IF FEq(self, One) THEN One
    ELSE IF FLt(self, Q(1, 2))
         THEN StdMulAdd(StdPowf(Q(2, 1), StdMulAdd(Q(20, 1), self, FNeg(Q(10, 1)))),
                        Q(1, 2), Zero)
    ELSE StdMulAdd(StdPowf(Q(2, 1), StdMulAdd(Q(-20, 1), self, Q(10, 1))),
                   FNeg(Q(1, 2)), One)

Scalar_ease_in_elastic(self) ==
    IF FEq(self, Zero) THEN Zero
    ELSE IF FEq(self, One) THEN One
    ELSE LET c4 == Q(20943952, 10000000)
         IN  FMul(FNeg(StdPowf(Q(2, 1), FSub(FMul(Q(10, 1), self), Q(10, 1)))),
                  StdSin(FMul(StdMulAdd(self, Q(10, 1), FNeg(Q(1075, 100))), c4)))

Scalar_ease_out_elastic(self) ==
    IF FEq(self, Zero) THEN Zero
    ELSE IF FEq(self, One) THEN One
    ELSE LET c4 == Q(20943952, 10000000)
         IN  StdMulAdd(StdPowf(Q(2, 1), FMul(FNeg(Q(10, 1)), self)),
                       StdSin(FMul(StdMulAdd(self, Q(10, 1), FNeg(Q(75, 100))), c4)),
                       One)

Scalar_ease_in_out_elastic(self) ==
    IF FEq(self, Zero) THEN Zero
    ELSE IF FEq(self, One) THEN One
    ELSE IF FLt(self, Q(1, 2))
         THEN LET c5 == Q(13962634, 10000000)
              IN  FMul(FMul(FNeg(StdPowf(Q(2, 1), FSub(FMul(Q(20, 1), self), Q(10, 1)))),
                            StdSin(FMul(StdMulAdd(self, Q(20, 1), FNeg(Q(11125, 1000))), c5))),
                       Q(1, 2))
    ELSE LET c5 == Q(13962634, 10000000)
         IN  StdMulAdd(StdPowf(Q(2, 1), FAdd(FMul(FNeg(Q(20, 1)), self), Q(10, 1))),
                       FMul(StdSin(FMul(StdMulAdd(self, Q(20, 1), FNeg(Q(11125, 1000))), c5)),
                            Q(1, 2)),
                       One)

\* a faulty variant: the upper half adds 1 after the halving
Scalar_ease_in_out_circ_unhalved(self) ==
    LET half == Q(1, 2)
        one == One
        two == Q(2, 1)
        dbl == FAdd(self, self)
    IN  IF FLt(self, half)
        THEN FMul(FSub(one, StdSqrt(FSub(one, StdPowi(dbl, 2)))), half)
        ELSE FAdd(FMul(StdSqrt(FSub(one, StdPowi(FSub(two, dbl), 2))), half), one)

Scalar_ease_in_out_circ(self) ==
    LET half == Q(1, 2)
        one == One
        two == Q(2, 1)
        dbl == FAdd(self, self)
    IN  IF FLt(self, half)
        THEN FMul(FSub(one, StdSqrt(FSub(one, StdPowi(dbl, 2)))), half)
        ELSE FMul(FAdd(StdSqrt(FSub(one, StdPowi(FSub(two, dbl), 2))), one), half)

\* a faulty variant: the guard of the identity branch is not strict
Scalar_ease_in_curve_le(self, curve) ==
    LET c == to_curve("scalar", curve)
    IN  IF ~FLt(Q(1, 1000), FAbs(c)) THEN self
        ELSE LET grow == StdExp(c)
                 one == One
                 a == FDiv(one, FSub(one, grow))
             IN  FSub(a, FMul(a, StdPowf(grow, self)))

Scalar_ease_in_curve(self, curve) ==
    LET c == to_curve("scalar", curve)
    IN  IF FLt(FAbs(c), Q(1, 1000)) THEN self
        ELSE LET grow == StdExp(c)
                 one == One
                 a == FDiv(one, FSub(one, grow))
             IN  FSub(a, FMul(a, StdPowf(grow, self)))

\* a faulty variant: ease_in_curve is taken at t in place of 1 - t
Scalar_ease_out_curve_unmirrored(self, curve) ==
    LET one == One
    IN  FSub(one, Scalar_ease_in_curve(self, curve))

Scalar_ease_out_curve(self, curve) ==
    LET one == One
    IN  FSub(one, Scalar_ease_in_curve(FSub(one, self), curve))

Scalar_ease_in_out_curve(self, curve) ==
    LET half == Q(1, 2)
    IN  IF FLt(self, half)
        THEN FMul(Scalar_ease_in_curve(FAdd(self, self), curve), half)
        ELSE FAdd(half, FMul(Scalar_ease_out_curve(FAdd(FSub(self, half), FSub(self, half)),
                                                   curve), half))

(***************************************************************************)
(* impl EasingImplHelper for Simd<T, N>                                    *)
(***************************************************************************)
Simd_ease_in_out_quad(self) ==
    LET half == Splat(Q(1, 2))
        mask == simd_lt(self, half)
        lower_half == double("simd", Simd_powi(self, 2))
        upper_half ==
            sub("simd", Splat(One), mul("simd", Simd_powi(sub("simd", double("simd", self), Splat(Q(2, 1))), 2), half))
    IN  select(mask, lower_half, upper_half)

Simd_ease_in_out_cubic(self) ==
    LET half == Splat(Q(1, 2))
        mask == simd_lt(self, half)
        lower_half ==
            LET cubed == Simd_powi(self, 3)
                doubled == double("simd", cubed)
            IN  add("simd", doubled, doubled)
        upper_half ==
            LET one == Splat(One)
                two == Splat(Q(2, 1))
            IN  sub("simd", one, mul("simd", Simd_powi(sub("simd", two, double("simd", self)), 3), half))
    IN  select(mask, lower_half, upper_half)

Simd_ease_in_out_quart(self) ==
    LET half == Splat(Q(1, 2))
        mask == simd_lt(self, half)
        lower_half == mul("simd", Splat(Q(8, 1)), Simd_powi(self, 4))
        upper_half ==
            LET one == Splat(One)
                two == Splat(Q(2, 1))
            IN  sub("simd", one, mul("simd", Simd_powi(sub("simd", two, double("simd", self)), 4), half))
    IN  select(mask, lower_half, upper_half)

Simd_ease_in_out_quint(self) ==
    LET half == Splat(Q(1, 2))
        mask == simd_lt(self, half)
        lower_half == mul("simd", Splat(Q(16, 1)), Simd_powi(self, 5))
        upper_half ==
            LET one == Splat(One)
                two == Splat(Q(2, 1))
            IN  sub("simd", one, mul("simd", Simd_powi(sub("simd", two, double("simd", self)), 5), half))
    IN  select(mask, lower_half, upper_half)

\* a faulty variant: the factor 0.5 reaches the lower branch only
Simd_ease_in_out_back_lower(self) ==
    LET c2 == Splat(FMul(Q(170158, 100000), Q(1525, 1000)))
        half == Splat(Q(1, 2))
        two == Splat(Q(2, 1))
        mask == simd_lt(self, half)
        two_x == double("simd", self)
        lower_half ==
            mul("simd", Simd_powi(two_x, 2),
                 mul_add("simd", add("simd", c2, Splat(One)), two_x, neg("simd", c2)))
        upper_half ==
            mul_add("simd", Simd_powi(sub("simd", two_x, two), 2),
                     mul_add("simd", add("simd", c2, Splat(One)), sub("simd", two_x, two), c2),
                     two)
    IN  select(mask, mul("simd", lower_half, half), upper_half)

Simd_ease_in_out_back(self) ==
    LET c2 == Splat(FMul(Q(170158, 100000), Q(1525, 1000)))
        half == Splat(Q(1, 2))
        mask == simd_lt(self, half)
        lower_half ==
            LET two_x == double("simd", self)
                pow_two_x_2 == Simd_powi(two_x, 2)
                inner == mul_add("simd", add("simd", c2, Splat(One)), two_x, neg("simd", c2))
            IN  mul("simd", pow_two_x_2, inner)
        upper_half ==
            LET two_x_minus_2 == sub("simd", double("simd", self), Splat(Q(2, 1)))
                pow_two_x_minus_2_2 == Simd_powi(two_x_minus_2, 2)
                inner == mul_add("simd", add("simd", c2, Splat(One)),
                              sub("simd", double("simd", self), Splat(Q(2, 1))), c2)
            IN  mul_add("simd", pow_two_x_minus_2_2, inner, Splat(Q(2, 1)))
    IN  mul("simd", select(mask, lower_half, upper_half), half)

\* a faulty variant: the selects test the widest mask first
Simd_ease_out_bounce_widest(self) ==
    LET n1 == Splat(Q(75625, 10000))
        one_over_d1 == Splat(FDiv(Q(1, 1), Q(275, 100)))
        two_over_d1 == Splat(FDiv(Q(2, 1), Q(275, 100)))
        two_point_five_over_d1 == Splat(FDiv(Q(25, 10), Q(275, 100)))
        mask1 == simd_lt(self, one_over_d1)
        mask2 == simd_lt(self, two_over_d1)
        mask3 == simd_lt(self, two_point_five_over_d1)
        branch1 == mul("simd", mul("simd", n1, self), self)
        adjusted2 == sub("simd", self, Splat(FDiv(Q(15, 10), Q(275, 100))))
        branch2 == mul_add("simd", mul("simd", adjusted2, adjusted2), n1, Splat(Q(75, 100)))
        adjusted3 == sub("simd", self, Splat(FDiv(Q(225, 100), Q(275, 100))))
        branch3 == mul_add("simd", mul("simd", adjusted3, adjusted3), n1, Splat(Q(9375, 10000)))
        adjusted4 == sub("simd", self, Splat(FDiv(Q(2625, 1000), Q(275, 100))))
        branch4 ==
            mul_add("simd", mul("simd", adjusted4, adjusted4), n1, Splat(Q(984375, 1000000)))
    IN  select(mask3, branch3, select(mask2, branch2, select(mask1, branch1, branch4)))

Simd_ease_out_bounce(self) ==
    LET n1 == Splat(Q(75625, 10000))
        one_over_d1 == Splat(FDiv(Q(1, 1), Q(275, 100)))
        two_over_d1 == Splat(FDiv(Q(2, 1), Q(275, 100)))
        two_point_five_over_d1 == Splat(FDiv(Q(25, 10), Q(275, 100)))
        mask1 == simd_lt(self, one_over_d1)
        mask2 == simd_lt(self, two_over_d1)
        mask3 == simd_lt(self, two_point_five_over_d1)
        branch1 == mul("simd", mul("simd", n1, self), self)
        adjusted2 == sub("simd", self, Splat(FDiv(Q(15, 10), Q(275, 100))))
        branch2 == mul_add("simd", mul("simd", adjusted2, adjusted2), n1, Splat(Q(75, 100)))
        adjusted3 == sub("simd", self, Splat(FDiv(Q(225, 100), Q(275, 100))))
        branch3 == mul_add("simd", mul("simd", adjusted3, adjusted3), n1, Splat(Q(9375, 10000)))
        adjusted4 == sub("simd", self, Splat(FDiv(Q(2625, 1000), Q(275, 100))))
        branch4 ==
            mul_add("simd", mul("simd", adjusted4, adjusted4), n1, Splat(Q(984375, 1000000)))
    IN  select(mask1, branch1, select(mask2, branch2, select(mask3, branch3, branch4)))

Simd_ease_in_out_bounce(self) ==
    LET half == Splat(Q(1, 2))
        one == Splat(One)
        mask == simd_lt(self, half)
        lower_half ==
            sub("simd", one, Simd_ease_out_bounce(sub("simd", one, double("simd", self))))
        upper_half ==
            add("simd", one, Simd_ease_out_bounce(sub("simd", double("simd", self), one)))
    IN  mul("simd", select(mask, lower_half, upper_half), half)

\* SimdScalar::ln_2 of f32 and f64: 2.0.ln()
ln_2 == StdLn(Q(2, 1))

Simd_ease_in_expo(self) ==
    LET zero == Splat(Zero)
        ln2 == Splat(ln_2)
        ten == Splat(Q(10, 1))
        mask_zero == simd_eq(self, zero)
        exponent == mul_add("simd", ten, self, neg("simd", ten))
        normal == exp("simd", mul("simd", exponent, ln2))
    IN  select(mask_zero, zero, normal)

Simd_ease_out_expo(self) ==
    LET one == Splat(One)
        ln2 == Splat(ln_2)
        neg_ten == Splat(Q(-10, 1))
        mask_one == simd_eq(self, one)
        exponent == mul("simd", neg_ten, self)
        normal == mul_add("simd", exp("simd", mul("simd", exponent, ln2)),
                       neg("simd", Splat(One)), one)
    IN  select(mask_one, one, normal)

\* a faulty variant: the half mask is selected last, over the endpoint masks
Simd_ease_in_out_expo_order(self) ==
    LET zero == Splat(Zero)
        one == Splat(One)
        half == Splat(Q(1, 2))
        ln2 == Splat(ln_2)
        twenty == Splat(Q(20, 1))
        ten == Splat(Q(10, 1))
        mask_zero == simd_eq(self, zero)
        mask_one == simd_eq(self, one)
        mask_half == simd_lt(self, half)
        exponent_lower == mul_add("simd", twenty, self, neg("simd", ten))
        branch_lower == mul("simd", exp("simd", mul("simd", exponent_lower, ln2)), half)
        exponent_upper == mul_add("simd", neg("simd", twenty), self, ten)
        branch_upper == mul_add("simd", exp("simd", mul("simd", exponent_upper, ln2)),
                             neg("simd", half), one)
        temp == select(mask_zero, zero, branch_upper)
        temp2 == select(mask_one, one, temp)
    IN  select(mask_half, branch_lower, temp2)

Simd_ease_in_out_expo(self) ==
    LET zero == Splat(Zero)
        one == Splat(One)
        half == Splat(Q(1, 2))
        ln2 == Splat(ln_2)
        twenty == Splat(Q(20, 1))
        ten == Splat(Q(10, 1))
        mask_zero == simd_eq(self, zero)
        mask_one == simd_eq(self, one)
        mask_half == simd_lt(self, half)
        exponent_lower == mul_add("simd", twenty, self, neg("simd", ten))
        branch_lower == mul("simd", exp("simd", mul("simd", exponent_lower, ln2)), half)
        exponent_upper == mul_add("simd", neg("simd", twenty), self, ten)
        branch_upper == mul_add("simd", exp("simd", mul("simd", exponent_upper, ln2)),
                             neg("simd", half), one)
        temp == select(mask_half, branch_lower, branch_upper)
        temp2 == select(mask_one, one, temp)
    IN  select(mask_zero, zero, temp2)

\* a faulty variant: the formula without the masks of t = 0 and t = 1
Simd_ease_in_elastic_unchecked(self) ==
    LET ln2 == Splat(ln_2)
        c4 == Splat(Q(20943952, 10000000))
        ten == Splat(Q(10, 1))
        minus_ten_point_75 == Splat(Q(-1075, 100))
        exponent == mul_add("simd", ten, self, neg("simd", ten))
        sin_arg == mul("simd", mul_add("simd", ten, self, minus_ten_point_75), c4)
    IN  mul("simd", neg("simd", exp("simd", mul("simd", exponent, ln2))),
            sin("simd", sin_arg))

Simd_ease_in_elastic(self) ==
    LET zero == Splat(Zero)
        one == Splat(One)
        ln2 == Splat(ln_2)
        c4 == Splat(Q(20943952, 10000000))
        ten == Splat(Q(10, 1))
        minus_ten_point_75 == Splat(Q(-1075, 100))
        mask_zero == simd_eq(self, zero)
        mask_one == simd_eq(self, one)
        exponent == mul_add("simd", ten, self, neg("simd", ten))
        sin_arg == mul("simd", mul_add("simd", ten, self, minus_ten_point_75), c4)
        normal == mul("simd", neg("simd", exp("simd", mul("simd", exponent, ln2))),
                       sin("simd", sin_arg))
        temp == select(mask_one, one, normal)
    IN  select(mask_zero, zero, temp)

Simd_ease_out_elastic(self) ==
    LET zero == Splat(Zero)
        one == Splat(One)
        ln2 == Splat(ln_2)
        c4 == Splat(Q(20943952, 10000000))
        ten == Splat(Q(10, 1))
        minus_zero_point_75 == Splat(Q(-75, 100))
        mask_zero == simd_eq(self, zero)
        mask_one == simd_eq(self, one)
        exponent == mul("simd", neg("simd", ten), self)
        sin_arg == mul("simd", mul_add("simd", ten, self, minus_zero_point_75), c4)
        normal == mul_add("simd", exp("simd", mul("simd", exponent, ln2)),
                       sin("simd", sin_arg), one)
        temp == select(mask_one, one, normal)
    IN  select(mask_zero, zero, temp)

Simd_ease_in_out_elastic(self) ==
    LET zero == Splat(Zero)
        one == Splat(One)
        half == Splat(Q(1, 2))
        ln2 == Splat(ln_2)
        c5 == Splat(Q(13962634, 10000000))
        twenty == Splat(Q(20, 1))
        ten == Splat(Q(10, 1))
        minus_eleven_point_125 == Splat(Q(-11125, 1000))
        mask_zero == simd_eq(self, zero)
        mask_one == simd_eq(self, one)
        mask_half == simd_lt(self, half)
        exponent_lower == mul_add("simd", twenty, self, neg("simd", ten))
        sin_arg == mul("simd", mul_add("simd", twenty, self, minus_eleven_point_125), c5)
        branch_lower ==
            mul("simd", mul("simd", neg("simd", exp("simd", mul("simd", exponent_lower, ln2))),
                            sin("simd", sin_arg)),
                 half)
        exponent_upper == mul_add("simd", neg("simd", twenty), self, ten)
        branch_upper == mul_add("simd", exp("simd", mul("simd", exponent_upper, ln2)),
                             mul("simd", sin("simd", sin_arg), half), one)
        temp == select(mask_half, branch_lower, branch_upper)
        temp2 == select(mask_one, one, temp)
    IN  select(mask_zero, zero, temp2)

Simd_ease_in_out_circ(self) ==
    LET half == Splat(Q(1, 2))
        mask == simd_lt(self, half)
        one == Splat(One)
        two == Splat(Q(2, 1))
        dbl == double("simd", self)
        lower_half == sub("simd", one, sqrt("simd", sub("simd", one, Simd_powi(dbl, 2))))
        upper_half ==
            add("simd", sqrt("simd", sub("simd", one, Simd_powi(sub("simd", two, dbl), 2))), one)
    IN  mul("simd", select(mask, lower_half, upper_half), half)

\* a faulty variant: the formula is returned in every lane
Simd_ease_in_curve_unguarded(self, curve) ==
    LET c == to_curve("simd", curve)
        grow == exp("simd", c)
        a == div("simd", Splat(One), sub("simd", Splat(One), grow))
    IN  sub("simd", a, mul("simd", a, Simd_powf(grow, self)))

Simd_ease_in_curve(self, curve) ==
    LET c == to_curve("simd", curve)
        abs_curve == abs("simd", c)
        mask == simd_lt(abs_curve, Splat(Q(1, 1000)))
        grow == exp("simd", c)
        a == div("simd", Splat(One), sub("simd", Splat(One), grow))
        normal == sub("simd", a, mul("simd", a, Simd_powf(grow, self)))
    IN  select(mask, self, normal)

Simd_ease_out_curve(self, curve) ==
    LET one == Splat(One)
    IN  sub("simd", one, Simd_ease_in_curve(sub("simd", one, self), curve))

Simd_ease_in_out_curve(self, curve) ==
    LET half == Splat(Q(1, 2))
        mask == simd_lt(self, half)
        lower_half == mul("simd", Simd_ease_in_curve(double("simd", self), curve), half)
        upper_half ==
            add("simd", half,
                 mul("simd", Simd_ease_out_curve(double("simd", sub("simd", self, half)), curve),
                      half))
    IN  select(mask, lower_half, upper_half)

(***************************************************************************)
(* trait EasingArgument: the public easing functions of a representation T *)
(***************************************************************************)
ease_in_quad(T, self) == ease_in_pow(T, self, 2)
ease_out_quad(T, self) == ease_out_pow(T, self, 2)
ease_in_out_quad(T, self) ==
    IF T = "scalar" THEN Scalar_ease_in_out_quad(self) ELSE Simd_ease_in_out_quad(self)

ease_in_cubic(T, self) == ease_in_pow(T, self, 3)
\* a faulty variant: dispatches to the exponent of the quad functions
ease_out_cubic_as_quad(T, self) == ease_out_pow(T, self, 2)
ease_out_cubic(T, self) == ease_out_pow(T, self, 3)
ease_in_out_cubic(T, self) ==
    IF T = "scalar" THEN Scalar_ease_in_out_cubic(self) ELSE Simd_ease_in_out_cubic(self)

ease_in_quart(T, self) == ease_in_pow(T, self, 4)
ease_out_quart(T, self) == ease_out_pow(T, self, 4)
ease_in_out_quart(T, self) ==
    IF T = "scalar" THEN Scalar_ease_in_out_quart(self) ELSE Simd_ease_in_out_quart(self)

ease_in_quint(T, self) == ease_in_pow(T, self, 5)
ease_out_quint(T, self) == ease_out_pow(T, self, 5)
ease_in_out_quint(T, self) ==
    IF T = "scalar" THEN Scalar_ease_in_out_quint(self) ELSE Simd_ease_in_out_quint(self)

ease_in_out_back(T, self) ==
    IF T = "scalar" THEN Scalar_ease_in_out_back(self) ELSE Simd_ease_in_out_back(self)

ease_out_bounce(T, self) ==
    IF T = "scalar" THEN Scalar_ease_out_bounce(self) ELSE Simd_ease_out_bounce(self)

\* a faulty variant: ease_out_bounce is taken at t in place of 1 - t
ease_in_bounce_unmirrored(T, self) ==
    LET one == from_f32(T, One)
    IN  sub(T, one, ease_out_bounce(T, self))

ease_in_bounce(T, self) ==
    LET one == from_f32(T, One)
    IN  sub(T, one, ease_out_bounce(T, sub(T, one, self)))

ease_in_out_bounce(T, self) ==
    IF T = "scalar" THEN Scalar_ease_in_out_bounce(self) ELSE Simd_ease_in_out_bounce(self)

ease_in_expo(T, self) ==
    IF T = "scalar" THEN Scalar_ease_in_expo(self) ELSE Simd_ease_in_expo(self)
ease_out_expo(T, self) ==
    IF T = "scalar" THEN Scalar_ease_out_expo(self) ELSE Simd_ease_out_expo(self)
ease_in_out_expo(T, self) ==
    IF T = "scalar" THEN Scalar_ease_in_out_expo(self) ELSE Simd_ease_in_out_expo(self)

ease_in_elastic(T, self) ==
    IF T = "scalar" THEN Scalar_ease_in_elastic(self) ELSE Simd_ease_in_elastic(self)
ease_out_elastic(T, self) ==
    IF T = "scalar" THEN Scalar_ease_out_elastic(self) ELSE Simd_ease_out_elastic(self)
ease_in_out_elastic(T, self) ==
    IF T = "scalar" THEN Scalar_ease_in_out_elastic(self) ELSE Simd_ease_in_out_elastic(self)

\* std::f32::consts::FRAC_PI_2 and PI, the f32 nearest to pi/2 and pi
FRAC_PI_2 == Q(13176795, 8388608)
PI == Q(13176795, 4194304)

\* a faulty variant: the cosine is taken over the whole of pi
ease_in_sine_full(T, self) ==
    sub(T, from_f32(T, One), cos(T, mul(T, self, from_f32(T, PI))))

ease_in_sine(T, self) ==
    LET one == from_f32(T, One)
        pi_half == from_f32(T, FRAC_PI_2)
    IN  sub(T, one, cos(T, mul(T, self, pi_half)))

ease_out_sine(T, self) ==
    LET pi_half == from_f32(T, FRAC_PI_2)
    IN  sin(T, mul(T, self, pi_half))

\* a faulty variant: the cosine is taken over half of pi
ease_in_out_sine_quarter(T, self) ==
    LET cos_val == cos(T, mul(T, self, from_f32(T, FRAC_PI_2)))
    IN  mul_add(T, cos_val, from_f32(T, Q(-1, 2)), from_f32(T, Q(1, 2)))

ease_in_out_sine(T, self) ==
    LET cos_val == cos(T, mul(T, self, from_f32(T, PI)))
    IN  mul_add(T, cos_val, from_f32(T, Q(-1, 2)), from_f32(T, Q(1, 2)))

ease_in_circ(T, self) ==
    LET one == from_f32(T, One)
    IN  sub(T, one, sqrt(T, sub(T, one, powi(T, self, 2))))

ease_out_circ(T, self) ==
    LET one == from_f32(T, One)
    IN  sqrt(T, sub(T, one, powi(T, sub(T, self, one), 2)))

ease_in_out_circ(T, self) ==
    IF T = "scalar" THEN Scalar_ease_in_out_circ(self) ELSE Simd_ease_in_out_circ(self)

\* a faulty variant: the cubic term carries the coefficient c1
ease_in_back_c1(T, self) ==
    LET c1 == from_f32(T, Q(170158, 100000))
    IN  sub(T, mul(T, c1, powi(T, self, 3)), mul(T, c1, powi(T, self, 2)))

ease_in_back(T, self) ==
    LET c1 == from_f32(T, Q(170158, 100000))
        c3 == from_f32(T, Q(270158, 100000))
    IN  sub(T, mul(T, c3, powi(T, self, 3)), mul(T, c1, powi(T, self, 2)))

\* a faulty variant: the quadratic term is subtracted
ease_out_back_undershoot(T, self) ==
    LET c1 == from_f32(T, Q(170158, 100000))
        c3 == from_f32(T, Q(270158, 100000))
        one == from_f32(T, One)
    IN  sub(T, add(T, one, mul(T, c3, powi(T, sub(T, self, one), 3))),
            mul(T, c1, powi(T, sub(T, self, one), 2)))

ease_out_back(T, self) ==
    LET c1 == from_f32(T, Q(170158, 100000))
        c3 == from_f32(T, Q(270158, 100000))
        one == from_f32(T, One)
    IN  add(T, add(T, one, mul(T, c3, powi(T, sub(T, self, one), 3))),
            mul(T, c1, powi(T, sub(T, self, one), 2)))

ease_in_curve(T, self, curve) ==
    IF T = "scalar" THEN Scalar_ease_in_curve(self, curve) ELSE Simd_ease_in_curve(self, curve)
ease_out_curve(T, self, curve) ==
    IF T = "scalar" THEN Scalar_ease_out_curve(self, curve)
    ELSE Simd_ease_out_curve(self, curve)
ease_in_out_curve(T, self, curve) ==
    IF T = "scalar" THEN Scalar_ease_in_out_curve(self, curve)
    ELSE Simd_ease_in_out_curve(self, curve)

(***************************************************************************)
(* The calls of a client: one action per public function.  A call records  *)
(* the function, the representation, the argument, the curve parameter     *)
(* and the value returned; the client then discards the result and is free *)
(* to make the next call.                                                  *)
(***************************************************************************)
Over == 2
Tenths == {Q(k, 10) : k \in (0 - Over)..(10 + Over)}
Curves == {Zero, Q(1, 2000), Q(-1, 2000), Q(1, 1000), Q(-1, 1000), One, Q(-1, 1)}
CurveFns == {"ease_in_curve", "ease_out_curve", "ease_in_out_curve"}

\* The points of a call: the tenths; for the bounce functions the branch
\* thresholds 1/2.75, 2/2.75, 2.5/2.75 of ease_out_bounce as well; for the
\* exponential functions two points whose exponents are not integers as well.
Points(f) ==
    IF f \in {"ease_in_bounce", "ease_out_bounce", "ease_in_out_bounce"}
    THEN Tenths \cup {Q(4, 11), Q(8, 11), Q(10, 11)}
    ELSE IF f \in {"ease_in_expo", "ease_out_expo", "ease_in_out_expo"}
         THEN Tenths \cup {Q(1, 4), Q(3, 4)}
    ELSE Tenths

\* a vector whose lane 1 holds x and whose other lanes hold y
Vec(x, y) == SubSeq([i \in 1..Lanes |-> IF i = 1 THEN x ELSE y], 1, Lanes)

Args(f, T) ==
    IF T = "scalar" THEN Points(f)
    ELSE {Vec(x, Q(9, 10)) : x \in Points(f)} \cup {Splat(x) : x \in Points(f)}

Params(f, T) ==
    IF f \notin CurveFns THEN {<<>>}
    ELSE IF T = "scalar" THEN {<<c>> : c \in Curves}
    ELSE {<<c>> : c \in Curves} \cup {Vec(c, One) : c \in Curves}

Apply(f, T, self, curve) ==
    CASE f = "ease_in_quad" -> ease_in_quad(T, self)
      [] f = "ease_out_quad" -> ease_out_quad(T, self)
      [] f = "ease_in_out_quad" -> ease_in_out_quad(T, self)
      [] f = "ease_in_cubic" -> ease_in_cubic(T, self)
      [] f = "ease_out_cubic" -> ease_out_cubic(T, self)
      [] f = "ease_in_out_cubic" -> ease_in_out_cubic(T, self)
      [] f = "ease_in_quart" -> ease_in_quart(T, self)
      [] f = "ease_out_quart" -> ease_out_quart(T, self)
      [] f = "ease_in_out_quart" -> ease_in_out_quart(T, self)
      [] f = "ease_in_quint" -> ease_in_quint(T, self)
      [] f = "ease_out_quint" -> ease_out_quint(T, self)
      [] f = "ease_in_out_quint" -> ease_in_out_quint(T, self)
      [] f = "ease_in_sine" -> ease_in_sine(T, self)
      [] f = "ease_out_sine" -> ease_out_sine(T, self)
      [] f = "ease_in_out_sine" -> ease_in_out_sine(T, self)
      [] f = "ease_in_circ" -> ease_in_circ(T, self)
      [] f = "ease_out_circ" -> ease_out_circ(T, self)
      [] f = "ease_in_out_circ" -> ease_in_out_circ(T, self)
      [] f = "ease_in_back" -> ease_in_back(T, self)
      [] f = "ease_out_back" -> ease_out_back(T, self)
      [] f = "ease_in_out_back" -> ease_in_out_back(T, self)
      [] f = "ease_in_bounce" -> ease_in_bounce(T, self)
      [] f = "ease_out_bounce" -> ease_out_bounce(T, self)
      [] f = "ease_in_out_bounce" -> ease_in_out_bounce(T, self)
      [] f = "ease_in_expo" -> ease_in_expo(T, self)
      [] f = "ease_out_expo" -> ease_out_expo(T, self)
      [] f = "ease_in_out_expo" -> ease_in_out_expo(T, self)
      [] f = "ease_in_elastic" -> ease_in_elastic(T, self)
      [] f = "ease_out_elastic" -> ease_out_elastic(T, self)
      [] f = "ease_in_out_elastic" -> ease_in_out_elastic(T, self)
      [] f = "ease_in_curve" -> ease_in_curve(T, self, curve)
      [] f = "ease_out_curve" -> ease_out_curve(T, self, curve)
      [] f = "ease_in_out_curve" -> ease_in_out_curve(T, self, curve)

Init ==
    /\ fn = "none"
    /\ rep = "scalar"
    /\ arg = Zero
    /\ crv = <<>>
    /\ res = Zero

Call(f) ==
    /\ fn = "none"
    /\ \E T \in Reps : \E a \in Args(f, T) : \E c \in Params(f, T) :
          /\ fn' = f
          /\ rep' = T
          /\ arg' = a
          /\ crv' = c
          /\ res' = Apply(f, T, a, c)

EaseInQuad == Call("ease_in_quad")
EaseOutQuad == Call("ease_out_quad")
EaseInOutQuad == Call("ease_in_out_quad")
EaseInCubic == Call("ease_in_cubic")
EaseOutCubic == Call("ease_out_cubic")
EaseInOutCubic == Call("ease_in_out_cubic")
EaseInQuart == Call("ease_in_quart")
EaseOutQuart == Call("ease_out_quart")
EaseInOutQuart == Call("ease_in_out_quart")
EaseInQuint == Call("ease_in_quint")
EaseOutQuint == Call("ease_out_quint")
EaseInOutQuint == Call("ease_in_out_quint")
EaseInSine == Call("ease_in_sine")
EaseOutSine == Call("ease_out_sine")
EaseInOutSine == Call("ease_in_out_sine")
EaseInCirc == Call("ease_in_circ")
EaseOutCirc == Call("ease_out_circ")
EaseInOutCirc == Call("ease_in_out_circ")
EaseInBack == Call("ease_in_back")
EaseOutBack == Call("ease_out_back")
EaseInOutBack == Call("ease_in_out_back")
EaseInBounce == Call("ease_in_bounce")
EaseOutBounce == Call("ease_out_bounce")
EaseInOutBounce == Call("ease_in_out_bounce")
EaseInExpo == Call("ease_in_expo")
EaseOutExpo == Call("ease_out_expo")
EaseInOutExpo == Call("ease_in_out_expo")
EaseInElastic == Call("ease_in_elastic")
EaseOutElastic == Call("ease_out_elastic")
EaseInOutElastic == Call("ease_in_out_elastic")
EaseInCurve == Call("ease_in_curve")
EaseOutCurve == Call("ease_out_curve")
EaseInOutCurve == Call("ease_in_out_curve")

Discard ==
    /\ fn # "none"
    /\ fn' = "none"
    /\ rep' = "scalar"
    /\ arg' = Zero
    /\ crv' = <<>>
    /\ res' = Zero

Next ==
    \/ EaseInQuad
    \/ EaseOutQuad
    \/ EaseInOutQuad
    \/ EaseInCubic
    \/ EaseOutCubic
    \/ EaseInOutCubic
    \/ EaseInQuart
    \/ EaseOutQuart
    \/ EaseInOutQuart
    \/ EaseInQuint
    \/ EaseOutQuint
    \/ EaseInOutQuint
    \/ EaseInSine
    \/ EaseOutSine
    \/ EaseInOutSine
    \/ EaseInCirc
    \/ EaseOutCirc
    \/ EaseInOutCirc
    \/ EaseInBack
    \/ EaseOutBack
    \/ EaseInOutBack
    \/ EaseInBounce
    \/ EaseOutBounce
    \/ EaseInOutBounce
    \/ EaseInExpo
    \/ EaseOutExpo
    \/ EaseInOutExpo
    \/ EaseInElastic
    \/ EaseOutElastic
    \/ EaseInOutElastic
    \/ EaseInCurve
    \/ EaseOutCurve
    \/ EaseInOutCurve
    \/ Discard

Spec == Init /\ [][Next]_vars

(***************************************************************************)
(* Properties                                                              *)
(***************************************************************************)
\* the lanes of the recorded call: a scalar call has the single lane 1
LaneIdx == IF rep = "scalar" THEN {1} ELSE 1..Lanes
ArgAt(i) == IF rep = "scalar" THEN arg ELSE arg[i]
ResAt(i) == IF rep = "scalar" THEN res ELSE res[i]
CrvAt(i) == IF Len(crv) = 1 THEN crv[1] ELSE crv[i]

\* x^n as the product of n factors x
RECURSIVE Pow(_, _)
Pow(x, n) == IF n = 0 THEN One ELSE FMul(Pow(x, n - 1), x)

\* the degree of a function of the power family
Degree(f) ==
    IF f \in {"ease_in_quad", "ease_out_quad", "ease_in_out_quad"} THEN 2
    ELSE IF f \in {"ease_in_cubic", "ease_out_cubic", "ease_in_out_cubic"} THEN 3
    ELSE IF f \in {"ease_in_quart", "ease_out_quart", "ease_in_out_quart"} THEN 4
    ELSE 5
PowerIn == {"ease_in_quad", "ease_in_cubic", "ease_in_quart", "ease_in_quint"}
PowerOut == {"ease_out_quad", "ease_out_cubic", "ease_out_quart", "ease_out_quint"}
PowerInOut ==
    {"ease_in_out_quad", "ease_in_out_cubic", "ease_in_out_quart", "ease_in_out_quint"}

\* C5: the ease_in functions of the power family return t^n and the ease_out
\* functions 1 - (1 - t)^n, with n = 2, 3, 4, 5 for quad, cubic, quart, quint,
\* for every t and in every lane.
C5_PowerDispatch ==
    \A i \in LaneIdx :
        /\ fn \in PowerIn => ResAt(i) = Pow(ArgAt(i), Degree(fn))
        /\ fn \in PowerOut => ResAt(i) = FSub(One, Pow(FSub(One, ArgAt(i)), Degree(fn)))

\* ease_out_cubic(3/10) = 1 - (7/10)^3 has been computed in a vector lane
C5_Witness ==
    /\ fn = "ease_out_cubic"
    /\ rep = "simd"
    /\ arg[1] = Q(3, 10)
    /\ res[1] = Q(657, 1000)

\* C6: an ease_in_out function of degree n returns 2^(n-1) * t^n for t < 0.5
\* and 1 - (2 - 2t)^n / 2 for t >= 0.5 (so for t = 0.5 as well), in every lane.
C6_PowerInOut ==
    \A i \in LaneIdx :
        fn \in PowerInOut =>
            LET t == ArgAt(i)
                n == Degree(fn)
            IN  IF FLt(t, Q(1, 2))
                THEN ResAt(i) = FMul(Q(2 ^ (n - 1), 1), Pow(t, n))
                ELSE ResAt(i) =
                         FSub(One, FDiv(Pow(FSub(Q(2, 1), FMul(Q(2, 1), t)), n), Q(2, 1)))

\* ease_in_out_quart has been called at t = 0.5 and has returned the value
\* 1 - (2 - 1)^4 / 2 of the upper-half formula
C6_Witness ==
    /\ fn = "ease_in_out_quart"
    /\ rep = "scalar"
    /\ arg = Q(1, 2)
    /\ res = Q(1, 2)

\* |a - b| < 1e-6 (decided on the 2^-28 floors of a and b), or a = b
EpsFix == (2 ^ 28) \div 1000000
Within(a, b) ==
    \/ FEq(a, b)
    \/ /\ IsFinite(a)
       /\ IsFinite(b)
       /\ Abs(ToFix(a, 28) - ToFix(b, 28)) < EpsFix

\* the four branches of ease_out_bounce, in the constants of the definition
BounceBranch(t) ==
    LET n1 == Q(121, 16)
    IN  IF FLt(t, Q(4, 11)) THEN FMul(n1, Pow(t, 2))
        ELSE IF FLt(t, Q(8, 11)) THEN FAdd(FMul(n1, Pow(FSub(t, Q(6, 11)), 2)), Q(3, 4))
        ELSE IF FLt(t, Q(10, 11))
             THEN FAdd(FMul(n1, Pow(FSub(t, Q(9, 11)), 2)), Q(15, 16))
        ELSE FAdd(FMul(n1, Pow(FSub(t, Q(21, 22)), 2)), Q(63, 64))

BounceReference ==
    <<<<Q(2, 10), Q(3025, 10000)>>, <<Q(4, 10), Q(91, 100)>>, <<Q(5, 10), Q(765625, 1000000)>>,
      <<Q(6, 10), Q(7725, 10000)>>, <<Q(8, 10), Q(94, 100)>>>>

\* C10: ease_out_bounce returns the branch selected by the strict comparisons
\* of t with 1/2.75, 2/2.75 and 2.5/2.75 (a t equal to a threshold has the
\* value of the later branch), and 0.3025, 0.91, 0.765625, 0.7725, 0.94 at
\* t = 0.2, 0.4, 0.5, 0.6, 0.8.
C10_OutBounce ==
    fn = "ease_out_bounce" =>
        \A i \in LaneIdx :
            /\ ResAt(i) = BounceBranch(ArgAt(i))
            /\ \A k \in 1..Len(BounceReference) :
                   ArgAt(i) = BounceReference[k][1] => ResAt(i) = BounceReference[k][2]

\* ease_out_bounce has been called at the threshold 1/2.75 and has returned
\* the value n1 * (1/2.75 - 1.5/2.75)^2 + 0.75 = 1 of the second branch
C10_Witness ==
    /\ fn = "ease_out_bounce"
    /\ rep = "scalar"
    /\ arg = Q(4, 11)
    /\ res = FAdd(FMul(Q(121, 16), Pow(Q(-2, 11), 2)), Q(3, 4))

\* 2^y
Exp2(y) == StdPowf(Q(2, 1), y)

\* C8: ease_in_expo returns exactly 0 at t = 0 and 2^(10t - 10) at every other
\* t; ease_out_expo returns exactly 1 at t = 1 and 1 - 2^(-10t) at every other
\* t; in the scalar form and in every lane of the vector form.
C8_Expo ==
    \A i \in LaneIdx :
        LET t == ArgAt(i)
        IN  /\ fn = "ease_in_expo" =>
                   IF t = Zero THEN ResAt(i) = Zero
                   ELSE Within(ResAt(i), Exp2(FSub(FMul(Q(10, 1), t), Q(10, 1))))
            /\ fn = "ease_out_expo" =>
                   IF t = One THEN ResAt(i) = One
                   ELSE Within(ResAt(i), FSub(One, Exp2(FMul(Q(-10, 1), t))))

\* a vector call of ease_in_expo has returned 0 in a lane holding t = 0, where
\* the formula gives 2^-10, next to a lane that holds the value of the formula
C8_Witness ==
    /\ fn = "ease_in_expo"
    /\ rep = "simd"
    /\ arg[1] = Zero
    /\ res[1] = Zero
    /\ Exp2(Q(-10, 1)) = Q(1, 1024)
    /\ arg[2] = Q(9, 10)
    /\ res[2] = Q(1, 2)

ExpoReference ==
    <<<<Q(2, 10), Q(1, 128), Q(7812, 1000000)>>, <<Q(4, 10), Q(1, 8), Q(125, 1000)>>,
      <<Q(5, 10), Q(1, 2), Q(5, 10)>>, <<Q(6, 10), Q(7, 8), Q(875, 1000)>>,
      <<Q(8, 10), Q(127, 128), Q(992188, 1000000)>>>>

\* C9: ease_in_out_expo returns exactly 0 at t = 0 and exactly 1 at t = 1,
\* 2^(20t - 10) / 2 at every other t < 0.5 and (2 - 2^(-20t + 10)) / 2 at every
\* other t >= 0.5, in the scalar form and in every lane of the vector form; at
\* t = 0.2, 0.4, 0.5, 0.6, 0.8 this is 2^-7, 2^-3, 0.5, 1 - 2^-3, 1 - 2^-7, within
\* 1e-6 of 0.007812, 0.125, 0.5, 0.875, 0.992188.
C9_InOutExpo ==
    fn = "ease_in_out_expo" =>
        \A i \in LaneIdx :
            LET t == ArgAt(i)
            IN  /\ IF t = Zero THEN ResAt(i) = Zero
                   ELSE IF t = One THEN ResAt(i) = One
                   ELSE IF FLt(t, Q(1, 2))
                        THEN Within(ResAt(i),
                                    FDiv(Exp2(FSub(FMul(Q(20, 1), t), Q(10, 1))), Q(2, 1)))
                   ELSE Within(ResAt(i),
                               FDiv(FSub(Q(2, 1), Exp2(FAdd(FMul(Q(-20, 1), t), Q(10, 1)))),
                                    Q(2, 1)))
                /\ \A k \in 1..Len(ExpoReference) :
                       t = ExpoReference[k][1] =>
                           /\ ResAt(i) = ExpoReference[k][2]
                           /\ Within(ResAt(i), ExpoReference[k][3])

\* a vector call of ease_in_out_expo has returned 0 in a lane holding t = 0,
\* where the lower-half formula gives 2^-11, and 1 - 2^-9 in a lane holding 0.9
C9_Witness ==
    /\ fn = "ease_in_out_expo"
    /\ rep = "simd"
    /\ arg[1] = Zero
    /\ res[1] = Zero
    /\ FDiv(Exp2(Q(-10, 1)), Q(2, 1)) = Q(1, 2048)
    /\ arg[2] = Q(9, 10)
    /\ res[2] = Q(511, 512)

\* the exponential formula a - a * grow^t of ease_in_curve in representation T
CurveFormula(T, self, c) ==
    LET grow == exp(T, c)
        one == from_f32(T, One)
        a == div(T, one, sub(T, one, grow))
    IN  sub(T, a, mul(T, a, powf(T, grow, self)))

\* C7: ease_in_curve returns exactly t, for every t inside or outside [0, 1],
\* where |curve| < 0.001, in the scalar form and in every lane of the vector
\* form; where |curve| = 0.001 it returns the value of a - a * grow^t.
C7_CurveIdentity ==
    fn = "ease_in_curve" =>
        \A i \in LaneIdx :
            /\ FLt(FAbs(CrvAt(i)), Q(1, 1000)) => ResAt(i) = ArgAt(i)
            /\ FAbs(CrvAt(i)) = Q(1, 1000) =>
                   /\ rep = "scalar" => res = CurveFormula("scalar", arg, CrvAt(i))
                   /\ rep = "simd" => res[i] = CurveFormula("simd", arg, to_curve("simd", crv))[i]

\* a vector call of ease_in_curve outside [0, 1] with the curve -0.0005 in lane
\* 1 has returned t there, and the value of the formula for the curve 1 elsewhere
C7_Witness ==
    /\ fn = "ease_in_curve"
    /\ rep = "simd"
    /\ crv = Vec(Q(-1, 2000), One)
    /\ arg = Vec(Q(12, 10), Q(9, 10))
    /\ res[1] = Q(12, 10)
    /\ res[2] # Q(9, 10)

BackFns == {"ease_in_back", "ease_out_back", "ease_in_out_back"}
BounceFns == {"ease_in_bounce", "ease_out_bounce", "ease_in_out_bounce"}
ExpoFns == {"ease_in_expo", "ease_out_expo", "ease_in_out_expo"}
\* the families whose endpoint values are exact in exact arithmetic
ExactFns ==
    PowerIn \cup PowerOut \cup PowerInOut \cup BackFns \cup BounceFns \cup ExpoFns

\* C1: every named easing function (quad .. elastic, in the in, out and in_out
\* form) returns 0 at t = 0 and 1 at t = 1 within 1e-6, and exactly for the
\* polynomial, bounce, back and expo families, in every lane.
C1_Boundary ==
    (fn # "none" /\ fn \notin CurveFns) =>
        \A i \in LaneIdx :
            /\ ArgAt(i) = Zero =>
                   /\ Within(ResAt(i), Zero)
                   /\ fn \in ExactFns => ResAt(i) = Zero
            /\ ArgAt(i) = One =>
                   /\ Within(ResAt(i), One)
                   /\ fn \in ExactFns => ResAt(i) = One

\* ease_in_out_sine has been called on a vector holding t = 1 and t = 0.9 and
\* has returned 1 in the lane of t = 1
C1_Witness ==
    /\ fn = "ease_in_out_sine"
    /\ rep = "simd"
    /\ arg = Vec(One, Q(9, 10))
    /\ Within(res[1], One)
    /\ ~Within(res[2], One)

\* the ease_in function of the family of an ease_out function
InOf ==
    [f \in {"ease_out_quad", "ease_out_cubic", "ease_out_quart", "ease_out_quint",
            "ease_out_sine", "ease_out_circ", "ease_out_back", "ease_out_bounce",
            "ease_out_expo", "ease_out_elastic", "ease_out_curve"} |->
        CASE f = "ease_out_quad" -> "ease_in_quad"
          [] f = "ease_out_cubic" -> "ease_in_cubic"
          [] f = "ease_out_quart" -> "ease_in_quart"
          [] f = "ease_out_quint" -> "ease_in_quint"
          [] f = "ease_out_sine" -> "ease_in_sine"
          [] f = "ease_out_circ" -> "ease_in_circ"
          [] f = "ease_out_back" -> "ease_in_back"
          [] f = "ease_out_bounce" -> "ease_in_bounce"
          [] f = "ease_out_expo" -> "ease_in_expo"
          [] f = "ease_out_elastic" -> "ease_in_elastic"
          [] f = "ease_out_curve" -> "ease_in_curve"]

\* the value in lane i of a result v of the representation of the recorded call
LaneOf(v, i) == IF rep = "scalar" THEN v ELSE v[i]
\* 1 - arg in the representation of the recorded call
Mirrored == sub(rep, from_f32(rep, One), arg)

\* C2: for every family X (the curve family with the curve 1.0) and every t in
\* {0.1, .., 0.9}, ease_out_X(t) = 1 - ease_in_X(1 - t) within 1e-6.
C2_Mirror ==
    (fn \in DOMAIN InOf /\ (fn = "ease_out_curve" => crv = <<One>>)) =>
        LET m == Apply(InOf[fn], rep, Mirrored, crv)
        IN  \A i \in LaneIdx :
                ArgAt(i) \in {Q(k, 10) : k \in 1..9} =>
                    Within(ResAt(i), FSub(One, LaneOf(m, i)))

\* ease_out_elastic(0.3) = 0.875 has been computed, and ease_in_elastic(0.7)
\* is 0.125
C2_Witness ==
    /\ fn = "ease_out_elastic"
    /\ rep = "scalar"
    /\ arg = Q(3, 10)
    /\ res = Q(7, 8)
    /\ Within(ease_in_elastic("scalar", Q(7, 10)), Q(1, 8))

InOutFns ==
    PowerInOut \cup {"ease_in_out_sine", "ease_in_out_circ", "ease_in_out_back",
                     "ease_in_out_bounce", "ease_in_out_expo", "ease_in_out_elastic",
                     "ease_in_out_curve"}

\* C3: for every ease_in_out function X (the curve family with the curve 1.0)
\* and every t in {0.1, .., 0.5}, ease_in_out_X(t) = 1 - ease_in_out_X(1 - t)
\* within 1e-6.
C3_InOutSymmetry ==
    (fn \in InOutFns /\ (fn = "ease_in_out_curve" => crv = <<One>>)) =>
        LET m == Apply(fn, rep, Mirrored, crv)
        IN  \A i \in LaneIdx :
                ArgAt(i) \in {Q(k, 10) : k \in 1..5} =>
                    Within(ResAt(i), FSub(One, LaneOf(m, i)))

\* ease_in_out_back has been called at t = 0.3, in the lower half, where it
\* undershoots; 1 - t = 0.7 lies in the upper half
C3_Witness ==
    /\ fn = "ease_in_out_back"
    /\ rep = "scalar"
    /\ arg = Q(3, 10)
    /\ FLt(res, Zero)
    /\ FLt(One, ease_in_out_back("scalar", Q(7, 10)))

\* C4: for every named easing function and the three curve functions with the
\* curve 1.0, and every x in {0.0, 0.1, .., 1.0}, the first lane of f(splat(x))
\* and the scalar f(x) agree within 1e-6.
C4_ScalarVector ==
    (/\ rep = "simd"
     /\ fn # "none"
     /\ fn \in CurveFns => crv = <<One>>
     /\ arg = Splat(arg[1])
     /\ arg[1] \in {Q(k, 10) : k \in 0..10}) =>
        Within(res[1], Apply(fn, "scalar", arg[1], crv))

\* ease_in_out_curve has been called on splat(0.7) with the curve 1.0 and its
\* first lane holds a value of the upper half
C4_Witness ==
    /\ fn = "ease_in_out_curve"
    /\ rep = "simd"
    /\ crv = <<One>>
    /\ arg = Splat(Q(7, 10))
    /\ FLt(Q(1, 2), res[1])
    /\ FLt(res[1], One)

InBounceReference ==
    <<<<Q(2, 10), Q(6, 100)>>, <<Q(4, 10), Q(2275, 10000)>>, <<Q(5, 10), Q(234375, 1000000)>>,
      <<Q(6, 10), Q(9, 100)>>, <<Q(8, 10), Q(6975, 10000)>>>>
InOutBounceReference ==
    <<<<Q(2, 10), Q(11375, 100000)>>, <<Q(4, 10), Q(34875, 100000)>>, <<Q(5, 10), Q(5, 10)>>,
      <<Q(6, 10), Q(65125, 100000)>>, <<Q(8, 10), Q(88625, 100000)>>>>

\* C11: ease_in_bounce(t) = 1 - ease_out_bounce(1 - t) for every t, and
\* ease_in_out_bounce(t) = (1 - ease_out_bounce(1 - 2t)) / 2 for t < 0.5 and
\* (1 + ease_out_bounce(2t - 1)) / 2 for t >= 0.5, in every lane; at t = 0.2,
\* 0.4, 0.5, 0.6, 0.8 they return 0.06, 0.2275, 0.234375, 0.09, 0.6975 and
\* 0.11375, 0.34875, 0.5, 0.65125, 0.88625.
C11_Bounce ==
    \A i \in LaneIdx :
        LET t == ArgAt(i)
            two_t == FMul(Q(2, 1), t)
        IN  /\ fn = "ease_in_bounce" =>
                   /\ ResAt(i) = FSub(One, ease_out_bounce("scalar", FSub(One, t)))
                   /\ \A k \in 1..Len(InBounceReference) :
                          t = InBounceReference[k][1] =>
                              Within(ResAt(i), InBounceReference[k][2])
            /\ fn = "ease_in_out_bounce" =>
                   /\ IF FLt(t, Q(1, 2))
                      THEN ResAt(i) =
                               FDiv(FSub(One, ease_out_bounce("scalar", FSub(One, two_t))),
                                    Q(2, 1))
                      ELSE ResAt(i) =
                               FDiv(FAdd(One, ease_out_bounce("scalar", FSub(two_t, One))),
                                    Q(2, 1))
                   /\ \A k \in 1..Len(InOutBounceReference) :
                          t = InOutBounceReference[k][1] =>
                              Within(ResAt(i), InOutBounceReference[k][2])

\* ease_in_bounce has been called at t = 0.6 and has returned
\* 1 - ease_out_bounce(0.4) = 0.09
C11_Witness ==
    /\ fn = "ease_in_bounce"
    /\ rep = "scalar"
    /\ arg = Q(6, 10)
    /\ res = Q(9, 100)
    /\ ease_out_bounce("scalar", Q(4, 10)) = Q(91, 100)

\* C12: with c1 = 1.70158 and c3 = 2.70158, ease_in_back(t) = c3 t^3 - c1 t^2
\* is negative for every t in {0.1, .., 0.6}, ease_out_back(t) exceeds 1 for
\* every t in {0.4, .., 0.9}, ease_in_out_back(0.2) < 0 and
\* ease_in_out_back(0.8) > 1, while each of the three returns exactly 0 at
\* t = 0 and exactly 1 at t = 1, in every lane.
C12_BackOvershoot ==
    \A i \in LaneIdx :
        LET t == ArgAt(i)
            c1 == Q(170158, 100000)
            c3 == Q(270158, 100000)
        IN  /\ fn = "ease_in_back" =>
                   /\ ResAt(i) = FSub(FMul(c3, Pow(t, 3)), FMul(c1, Pow(t, 2)))
                   /\ t \in {Q(k, 10) : k \in 1..6} => FLt(ResAt(i), Zero)
            /\ fn = "ease_out_back" =>
                   (t \in {Q(k, 10) : k \in 4..9} => FLt(One, ResAt(i)))
            /\ fn = "ease_in_out_back" =>
                   /\ t = Q(2, 10) => FLt(ResAt(i), Zero)
                   /\ t = Q(8, 10) => FLt(One, ResAt(i))
            /\ fn \in BackFns =>
                   /\ t = Zero => ResAt(i) = Zero
                   /\ t = One => ResAt(i) = One

\* ease_out_back has been called at t = 0.9 and has returned a value above 1,
\* and ease_in_back is negative at t = 0.6 and positive at t = 0.7
C12_Witness ==
    /\ fn = "ease_out_back"
    /\ rep = "scalar"
    /\ arg = Q(9, 10)
    /\ FLt(One, res)
    /\ FLt(ease_in_back("scalar", Q(6, 10)), Zero)
    /\ FLt(Zero, ease_in_back("scalar", Q(7, 10)))

ElasticFns == {"ease_in_elastic", "ease_out_elastic", "ease_in_out_elastic"}

\* the oscillating formulas of the elastic functions, with c4 = 2 pi / 3 and
\* c5 = 2 pi / 4.5
InElasticFormula(t) ==
    FNeg(FMul(Exp2(FSub(FMul(Q(10, 1), t), Q(10, 1))),
              StdSin(FMul(FSub(FMul(Q(10, 1), t), Q(1075, 100)), Q(20943952, 10000000)))))
OutElasticFormula(t) ==
    FAdd(FMul(Exp2(FMul(Q(-10, 1), t)),
              StdSin(FMul(FSub(FMul(Q(10, 1), t), Q(75, 100)), Q(20943952, 10000000)))),
         One)
InOutElasticFormula(t) ==
    LET s == StdSin(FMul(FSub(FMul(Q(20, 1), t), Q(11125, 1000)), Q(13962634, 10000000)))
    IN  IF FLt(t, Q(1, 2))
        THEN FNeg(FDiv(FMul(Exp2(FSub(FMul(Q(20, 1), t), Q(10, 1))), s), Q(2, 1)))
        ELSE FAdd(FDiv(FMul(Exp2(FSub(Q(10, 1), FMul(Q(20, 1), t))), s), Q(2, 1)), One)
ElasticFormula(f, t) ==
    CASE f = "ease_in_elastic" -> InElasticFormula(t)
      [] f = "ease_out_elastic" -> OutElasticFormula(t)
      [] f = "ease_in_out_elastic" -> InOutElasticFormula(t)

\* C13: the three elastic functions return exactly 0 at t = 0 and exactly 1 at
\* t = 1, in the scalar form and in every lane of the vector form, although
\* the oscillating formula gives other values there (for ease_in_elastic at
\* t = 0 the value -2^-10 * sin(-10.75 * c4), which is not 0); at every other
\* t they return the value of the formula.
C13_Elastic ==
    fn \in ElasticFns =>
        \A i \in LaneIdx :
            LET t == ArgAt(i)
            IN  /\ t = Zero =>
                       /\ ResAt(i) = Zero
                       /\ ~Within(InElasticFormula(Zero), Zero)
                /\ t = One => ResAt(i) = One
                /\ t \notin {Zero, One} => Within(ResAt(i), ElasticFormula(fn, t))

\* a vector call of ease_in_elastic has returned 0 in a lane holding t = 0,
\* where the formula gives -2^-11, next to a lane holding the value -0.25 of
\* the formula at t = 0.9
C13_Witness ==
    /\ fn = "ease_in_elastic"
    /\ rep = "simd"
    /\ arg = Vec(Zero, Q(9, 10))
    /\ res[1] = Zero
    /\ Within(InElasticFormula(Zero), Q(-1, 2048))
    /\ Within(res[2], InElasticFormula(Q(9, 10)))
    /\ Within(res[2], Q(-1, 4))

\* 2 * arg and 2 * (arg - 0.5) in the representation of the recorded call
Doubled == add(rep, arg, arg)
DoubledUpper ==
    LET h == sub(rep, arg, from_f32(rep, Q(1, 2)))
    IN  add(rep, h, h)

C15_CurveParam ==
    (fn \in CurveFns /\ rep = "simd") =>
        /\ Len(crv) = 1 => res = Apply(fn, "simd", arg, Splat(crv[1]))
        /\ Len(crv) = Lanes =>
               /\ to_curve("simd", crv) = crv
               /\ \A i \in 1..Lanes : res[i] = Apply(fn, "simd", arg, <<crv[i]>>)[i]

\* ease_in_out_curve has been called on a vector with the scalar curve 1.0;
\* its second lane, holding 0.9, has the value of the curve 1.0 and not the
\* value 0.9 of a lane without curve
C15_Witness ==
    /\ fn = "ease_in_out_curve"
    /\ rep = "simd"
    /\ crv = <<One>>
    /\ arg = Vec(Q(3, 10), Q(9, 10))
    /\ res[2] = ease_in_out_curve("simd", Splat(Q(9, 10)), Splat(One))[2]
    /\ ~Within(res[2], Q(9, 10))

\* the families that are monotonic: power, sine, circ, expo and curve
MonotonicFns ==
    PowerIn \cup PowerOut \cup PowerInOut \cup ExpoFns \cup CurveFns
        \cup {"ease_in_sine", "ease_out_sine", "ease_in_out_sine",
              "ease_in_circ", "ease_out_circ", "ease_in_out_circ"}

\* the points of [0, 1] a result is compared at, in increasing order: the
\* tenths, and points next to the endpoints and to the branch boundary t = 0.5
MonotonicPoints ==
    <<Zero, Q(1, 100), Q(1, 10), Q(2, 10), Q(3, 10), Q(4, 10), Q(49, 100), Q(5, 10),
      Q(51, 100), Q(6, 10), Q(7, 10), Q(8, 10), Q(9, 10), Q(99, 100), One>>

FLe(a, b) == FLt(a, b) \/ FEq(a, b)

\* the greatest point below t and the least point above t (t itself where
\* there is none)
Below(t) ==
    LET S == {k \in 1..Len(MonotonicPoints) : FLt(MonotonicPoints[k], t)}
    IN  IF S = {} THEN t ELSE MonotonicPoints[CHOOSE k \in S : \A j \in S : j <= k]
Above(t) ==
    LET S == {k \in 1..Len(MonotonicPoints) : FLt(t, MonotonicPoints[k])}
    IN  IF S = {} THEN t ELSE MonotonicPoints[CHOOSE k \in S : \A j \in S : k <= j]

\* the recorded function applied, in the representation and with the curve
\* parameter of the recorded call, to the points below and above its argument
AtBelow ==
    Apply(fn, rep,
          IF rep = "scalar" THEN Below(arg)
          ELSE SubSeq([i \in 1..Lanes |-> Below(arg[i])], 1, Lanes), crv)
AtAbove ==
    Apply(fn, rep,
          IF rep = "scalar" THEN Above(arg)
          ELSE SubSeq([i \in 1..Lanes |-> Above(arg[i])], 1, Lanes), crv)

\* C16: every function of the power, sine, circ, expo and curve families, in
\* the in, out and in_out form, is monotonic on [0, 1]: f(t1) <= f(t2) for all
\* t1 < t2, also where t1 and t2 lie on the two sides of the branch boundary
\* t = 0.5 and where one of them is an endpoint with a special case.  Every
\* call at a t of [0, 1] is compared with the points next to t; the calls at
\* all the points together give the chain
\* f(0) <= f(0.01) <= f(0.1) <= .. <= f(0.49) <= f(0.5) <= f(0.51) <= .. <= f(1).
C16_Monotonic ==
    fn \in MonotonicFns =>
        LET lo == AtBelow
            hi == AtAbove
        IN  \A i \in LaneIdx :
                LET t == ArgAt(i)
                IN  (FLe(Zero, t) /\ FLe(t, One)) =>
                        /\ FLe(LaneOf(lo, i), ResAt(i))
                        /\ FLe(ResAt(i), LaneOf(hi, i))

\* ease_in_out_expo has been called at t = 0.5: its value 0.5 of the upper
\* half lies between the values at 0.49 and 0.51, and the value at 0.01 of the
\* formula lies above the special case 0 of t = 0
C16_Witness ==
    /\ fn = "ease_in_out_expo"
    /\ rep = "scalar"
    /\ arg = Q(1, 2)
    /\ res = Q(1, 2)
    /\ Below(arg) = Q(49, 100)
    /\ Above(arg) = Q(51, 100)
    /\ FLt(AtBelow, res)
    /\ FLt(res, AtAbove)
    /\ FLt(Zero, ease_in_out_expo("scalar", Above(Zero)))

\* the ease_in_out functions with two branches that meet at t = 0.5
TwoHalfFns == InOutFns \ {"ease_in_out_sine"}

\* the formula of the lower branch (t < 0.5) of an ease_in_out function
LowerHalf(f, t, c) ==
    LET two_t == FMul(Q(2, 1), t)
        c2 == FMul(Q(170158, 100000), Q(1525, 1000))
    IN  CASE f \in PowerInOut -> FMul(Q(2 ^ (Degree(f) - 1), 1), Pow(t, Degree(f)))
          [] f = "ease_in_out_circ" ->
                 FDiv(FSub(One, StdSqrt(FSub(One, Pow(two_t, 2)))), Q(2, 1))
          [] f = "ease_in_out_back" ->
                 FDiv(FMul(Pow(two_t, 2), FSub(FMul(FAdd(c2, One), two_t), c2)), Q(2, 1))
          [] f = "ease_in_out_bounce" ->
                 FDiv(FSub(One, ease_out_bounce("scalar", FSub(One, two_t))), Q(2, 1))
          [] f = "ease_in_out_expo" ->
                 FDiv(Exp2(FSub(FMul(Q(20, 1), t), Q(10, 1))), Q(2, 1))
          [] f = "ease_in_out_elastic" ->
                 FNeg(FDiv(FMul(Exp2(FSub(FMul(Q(20, 1), t), Q(10, 1))),
                                StdSin(FMul(FSub(FMul(Q(20, 1), t), Q(11125, 1000)),
                                            Q(13962634, 10000000)))),
                           Q(2, 1)))
          [] f = "ease_in_out_curve" ->
                 FDiv(ease_in_curve("scalar", two_t, <<c>>), Q(2, 1))

\* the formula of the upper branch (t >= 0.5) of an ease_in_out function
UpperHalf(f, t, c) ==
    LET two_t == FMul(Q(2, 1), t)
        back == FSub(two_t, Q(2, 1))
        c2 == FMul(Q(170158, 100000), Q(1525, 1000))
    IN  CASE f \in PowerInOut -> FSub(One, FDiv(Pow(FNeg(back), Degree(f)), Q(2, 1)))
          [] f = "ease_in_out_circ" ->
                 FDiv(FAdd(StdSqrt(FSub(One, Pow(back, 2))), One), Q(2, 1))
          [] f = "ease_in_out_back" ->
                 FDiv(FAdd(FMul(Pow(back, 2), FAdd(FMul(FAdd(c2, One), back), c2)), Q(2, 1)),
                      Q(2, 1))
          [] f = "ease_in_out_bounce" ->
                 FDiv(FAdd(One, ease_out_bounce("scalar", FSub(two_t, One))), Q(2, 1))
          [] f = "ease_in_out_expo" ->
                 FDiv(FSub(Q(2, 1), Exp2(FSub(Q(10, 1), FMul(Q(20, 1), t)))), Q(2, 1))
          [] f = "ease_in_out_elastic" ->
                 FAdd(FDiv(FMul(Exp2(FSub(Q(10, 1), FMul(Q(20, 1), t))),
                                StdSin(FMul(FSub(FMul(Q(20, 1), t), Q(11125, 1000)),
                                            Q(13962634, 10000000)))),
                           Q(2, 1)),
                      One)
          [] f = "ease_in_out_curve" ->
                 FAdd(Q(1, 2), FDiv(ease_out_curve("scalar", FSub(two_t, One), <<c>>), Q(2, 1)))

\* t = 0 or t = 1 of a function with explicit endpoint checks
SpecialCase(f, t) ==
    f \in {"ease_in_out_expo", "ease_in_out_elastic"} /\ t \in {Zero, One}

\* C17: every ease_in_out function with two branches (quad, cubic, quart,
\* quint, circ, back, bounce, expo, elastic, curve) returns the lower-branch
\* formula for t < 0.5 and the upper-branch formula for t >= 0.5; at t = 0.5
\* it returns 0.5 (exactly for the power, back, bounce and expo families),
\* and the lower-branch formula evaluated at t = 0.5 is 0.5 as well.
C17_InOutContinuity ==
    fn \in TwoHalfFns =>
        \A i \in LaneIdx :
            LET t == ArgAt(i)
                c == IF fn \in CurveFns THEN CrvAt(i) ELSE Zero
            IN  /\ ~SpecialCase(fn, t) =>
                       IF FLt(t, Q(1, 2)) THEN Within(ResAt(i), LowerHalf(fn, t, c))
                       ELSE Within(ResAt(i), UpperHalf(fn, t, c))
                /\ t = Q(1, 2) =>
                       /\ Within(ResAt(i), Q(1, 2))
                       /\ fn \in ExactFns => ResAt(i) = Q(1, 2)
                       /\ Within(LowerHalf(fn, t, c), Q(1, 2))

\* ease_in_out_elastic has been called at t = 0.5 and has returned 0.5, the
\* value of both of its formulas there; at t = 0.4 the lower formula is away
\* from the upper one
C17_Witness ==
    /\ fn = "ease_in_out_elastic"
    /\ rep = "scalar"
    /\ arg = Q(1, 2)
    /\ Within(res, Q(1, 2))
    /\ Within(LowerHalf(fn, arg, Zero), UpperHalf(fn, arg, Zero))
    /\ ~Within(LowerHalf(fn, Q(4, 10), Zero), UpperHalf(fn, Q(4, 10), Zero))

\* the inputs of the reference tests, and the expected values of the power
\* family in millionths
ReferenceInputs == <<Q(2, 10), Q(4, 10), Q(5, 10), Q(6, 10), Q(8, 10)>>
PowerReference ==
    [f \in PowerIn \cup PowerOut \cup PowerInOut |->
        CASE f = "ease_in_quad" -> <<40000, 160000, 250000, 360000, 640000>>
          [] f = "ease_out_quad" -> <<360000, 640000, 750000, 840000, 960000>>
          [] f = "ease_in_out_quad" -> <<80000, 320000, 500000, 680000, 920000>>
          [] f = "ease_in_cubic" -> <<8000, 64000, 125000, 216000, 512000>>
          [] f = "ease_out_cubic" -> <<488000, 784000, 875000, 936000, 992000>>
          [] f = "ease_in_out_cubic" -> <<32000, 256000, 500000, 744000, 968000>>
          [] f = "ease_in_quart" -> <<1600, 25600, 62500, 129600, 409600>>
          [] f = "ease_out_quart" -> <<590400, 870400, 937500, 974400, 998400>>
          [] f = "ease_in_out_quart" -> <<12800, 204800, 500000, 795200, 987200>>
          [] f = "ease_in_quint" -> <<320, 10240, 31250, 77760, 327680>>
          [] f = "ease_out_quint" -> <<672320, 922240, 968750, 989760, 999680>>
          [] f = "ease_in_out_quint" -> <<5120, 163840, 500000, 836160, 994880>>]

\* C18: on the inputs 0.2, 0.4, 0.5, 0.6, 0.8 each of the twelve functions of
\* the power family returns the expected value of its reference test within
\* 1e-6: ease_in_quad returns 0.04, 0.16, 0.25, 0.36, 0.64, .., and
\* ease_in_out_quint returns 0.00512, 0.16384, 0.5, 0.83616, 0.99488.
C18_PowerReference ==
    fn \in DOMAIN PowerReference =>
        \A i \in LaneIdx :
            \A k \in 1..Len(ReferenceInputs) :
                ArgAt(i) = ReferenceInputs[k] =>
                    Within(ResAt(i), Q(PowerReference[fn][k], 1000000))

\* ease_in_out_quint has been called at t = 0.6, in its upper half, and has
\* returned 0.83616
C18_Witness ==
    /\ fn = "ease_in_out_quint"
    /\ rep = "scalar"
    /\ arg = Q(6, 10)
    /\ res = Q(83616, 100000)

\* a value of the scalar type: a finite number, an infinity or NaN
IsFloat(v) ==
    /\ DOMAIN v = 1..2
    /\ v[1] \in Int
    /\ v[2] \in Nat
    /\ v[2] = 0 => v[1] \in {-1, 0, 1}

\* a value of representation T: a scalar, or a vector of Lanes scalars
IsValue(T, v) ==
    IF T = "scalar" THEN IsFloat(v)
    ELSE DOMAIN v = 1..Lanes /\ \A i \in 1..Lanes : IsFloat(v[i])

\* C19: every call returns a value of the type of its argument, also for
\* arguments outside [0, 1] and for the arguments NaN, +Inf and -Inf; where
\* the square root of ease_in_circ (1 - t^2 < 0) or of ease_out_circ
\* (1 - (t - 1)^2 < 0) has a negative argument, the result is NaN, and it is a
\* finite number where that argument is not negative.
C19_NoError ==
    fn # "none" =>
        /\ IsValue(rep, res)
        /\ \A x \in {NaN, PosInf, NegInf} : IsValue(rep, Apply(fn, rep, from_f32(rep, x), crv))
        /\ \A i \in LaneIdx :
               LET t == ArgAt(i)
                   under == IF fn = "ease_in_circ" THEN FSub(One, Pow(t, 2))
                            ELSE FSub(One, Pow(FSub(t, One), 2))
               IN  fn \in {"ease_in_circ", "ease_out_circ"} =>
                       IF FLt(under, Zero) THEN IsNaN(ResAt(i)) ELSE IsFinite(ResAt(i))

\* a vector call of ease_in_circ has returned NaN in a lane holding t = 1.2,
\* where 1 - t^2 = -0.44, next to a finite value in a lane holding t = 0.9
C19_Witness ==
    /\ fn = "ease_in_circ"
    /\ rep = "simd"
    /\ arg = Vec(Q(12, 10), Q(9, 10))
    /\ IsNaN(res[1])
    /\ IsFinite(res[2])
    /\ FLt(FSub(One, Pow(arg[1], 2)), Zero)

(***************************************************************************)
(* Concurrent clients.  Every thread calls the functions on values of its  *)
(* own: a call takes its argument and its curve parameter by value         *)
(* (invoke), computes (return) and its result is dropped (release).  The   *)
(* functions read no static or shared data, so the state is nothing but    *)
(* the calls of the threads: fn, rep, arg, crv and res hold one entry per  *)
(* thread, and res[th] = <<>> while the call of th has not returned.  The   *)
(* threads call ease_in_out_quad, ease_out_bounce and ease_in_curve.       *)
(***************************************************************************)
NumThreads == 2

ThreadsInit ==
    /\ fn = [th \in 1..NumThreads |-> "none"]
    /\ rep = [th \in 1..NumThreads |-> "scalar"]
    /\ arg = [th \in 1..NumThreads |-> Zero]
    /\ crv = [th \in 1..NumThreads |-> <<>>]
    /\ res = [th \in 1..NumThreads |-> <<>>]

Invoke(th) ==
    /\ fn[th] = "none"
    /\ \E f \in {"ease_in_out_quad", "ease_out_bounce", "ease_in_curve"} :
       \E T \in Reps :
       \E a \in IF T = "scalar" THEN {Q(3, 10), Q(7, 10)} ELSE {Vec(Q(3, 10), Q(9, 10))} :
          /\ fn' = [fn EXCEPT ![th] = f]
          /\ rep' = [rep EXCEPT ![th] = T]
          /\ arg' = [arg EXCEPT ![th] = a]
          /\ crv' = [crv EXCEPT ![th] = IF f \in CurveFns THEN <<One>> ELSE <<>>]
          /\ res' = res

\* a faulty variant: the computation reads the argument through a buffer
\* shared by the threads, which holds the argument of the pending call of
\* thread 1 where that call has the same representation
Return_shared(th) ==
    /\ fn[th] # "none"
    /\ res[th] = <<>>
    /\ LET src == IF fn[1] # "none" /\ rep[1] = rep[th] THEN 1 ELSE th
       IN  res' = [res EXCEPT ![th] =
                      CASE fn[th] = "ease_in_out_quad" -> ease_in_out_quad(rep[th], arg[src])
                        [] fn[th] = "ease_out_bounce" -> ease_out_bounce(rep[th], arg[src])
                        [] fn[th] = "ease_in_curve" -> ease_in_curve(rep[th], arg[src], crv[th])]
    /\ UNCHANGED <<fn, rep, arg, crv>>

Return(th) ==
    /\ fn[th] # "none"
    /\ res[th] = <<>>
    /\ res' = [res EXCEPT ![th] =
                  CASE fn[th] = "ease_in_out_quad" -> ease_in_out_quad(rep[th], arg[th])
                    [] fn[th] = "ease_out_bounce" -> ease_out_bounce(rep[th], arg[th])
                    [] fn[th] = "ease_in_curve" -> ease_in_curve(rep[th], arg[th], crv[th])]
    /\ UNCHANGED <<fn, rep, arg, crv>>

Release(th) ==
    /\ fn[th] # "none"
    /\ res[th] # <<>>
    /\ fn' = [fn EXCEPT ![th] = "none"]
    /\ rep' = [rep EXCEPT ![th] = "scalar"]
    /\ arg' = [arg EXCEPT ![th] = Zero]
    /\ crv' = [crv EXCEPT ![th] = <<>>]
    /\ res' = [res EXCEPT ![th] = <<>>]

ThreadsNext == \E th \in 1..NumThreads : Invoke(th) \/ Return(th) \/ Release(th)

SpecThreads == ThreadsInit /\ [][ThreadsNext]_vars

\* the call of thread th returns in the step
Returns(th) == res[th] = <<>> /\ res'[th] # <<>>

\* C20: under every interleaving of the calls of the threads, the result of a
\* call that returns is the function of its own argument and curve parameter,
\* whatever calls the other threads have pending or have completed; the step
\* leaves the argument and the curve parameter of the call unchanged and
\* changes nothing of the calls of the other threads.
C20_Stateless ==
    [][\A th \in 1..NumThreads :
           Returns(th) =>
               /\ res'[th] = Apply(fn[th], rep[th], arg[th], crv[th])
               /\ arg'[th] = arg[th] /\ crv'[th] = crv[th]
               /\ fn'[th] = fn[th] /\ rep'[th] = rep[th]
               /\ \A o \in (1..NumThreads) \ {th} :
                      /\ fn'[o] = fn[o] /\ rep'[o] = rep[o] /\ arg'[o] = arg[o]
                      /\ crv'[o] = crv[o] /\ res'[o] = res[o]]_vars

\* thread 2 has returned from ease_in_out_quad(0.7) = 0.82 while thread 1 has
\* a call of ease_in_out_quad(0.3) pending, and holds its argument 0.7 still
C20_Witness ==
    /\ fn[1] = "ease_in_out_quad" /\ rep[1] = "scalar" /\ arg[1] = Q(3, 10) /\ res[1] = <<>>
    /\ fn[2] = "ease_in_out_quad" /\ rep[2] = "scalar" /\ arg[2] = Q(7, 10)
    /\ res[2] = Q(82, 100)

(***************************************************************************)
(* The recursion of the vector powi, one call or one return per step       *)
(***************************************************************************)
\* the exponents offered to powi are -MaxExp..MaxExp, and the call stack holds
\* StackLimit frames before the process aborts
MaxExp == 6
StackLimit == 8

\* a client calls powi(n) on a vector; crv holds the exponent of every active
\* call of the recursion, the outermost call first, and res the value the
\* innermost completed call has returned
PowiEnter ==
    /\ fn = "none"
    /\ \E b \in {Vec(Q(3, 2), Q(-2, 1)), Splat(Q(1, 2))} :
       \E n \in (0 - MaxExp)..MaxExp :
          /\ fn' = "powi"
          /\ rep' = "simd"
          /\ arg' = b
          /\ crv' = <<n>>
          /\ res' = <<>>

\* a faulty variant: an odd exponent is halved like an even one
PowiRecurse_halved ==
    /\ fn = "powi" /\ res = <<>>
    /\ crv[Len(crv)] # 1
    /\ Len(crv) < StackLimit
    /\ crv' = Append(crv, crv[Len(crv)] \div 2)
    /\ UNCHANGED <<fn, rep, arg, res>>

\* the innermost call, of an exponent other than 1, calls powi(n / 2) or
\* powi(n - 1); n % 2 and n / 2 agree with Rust's on the exponents that reach
\* them (n % 2 is non-zero for every odd n, n / 2 is exact for every even n);
\* the process aborts when the stack is exhausted
PowiRecurse ==
    /\ fn = "powi" /\ res = <<>>
    /\ LET n == crv[Len(crv)] IN
          /\ n # 1
          /\ IF Len(crv) < StackLimit
             THEN /\ crv' = Append(crv, IF n % 2 = 0 THEN n \div 2 ELSE n - 1)
                  /\ fn' = fn
             ELSE /\ crv' = crv
                  /\ fn' = "powi_aborted"
    /\ UNCHANGED <<rep, arg, res>>

\* the innermost call returns: self in the base case n = 1, tmp * tmp for an
\* even and self * powi(n - 1) for an odd exponent, of the value its callee
\* has returned; the return of the outermost call ends the operation
PowiReturn ==
    /\ fn = "powi"
    /\ LET n == crv[Len(crv)] IN
          /\ (res = <<>>) => n = 1
          /\ res' = IF res = <<>> THEN arg
                    ELSE IF n % 2 = 0 THEN mul("simd", res, res)
                    ELSE mul("simd", arg, res)
          /\ IF Len(crv) = 1
             THEN fn' = "powi_returned" /\ crv' = crv
             ELSE fn' = fn /\ crv' = SubSeq(crv, 1, Len(crv) - 1)
    /\ UNCHANGED <<rep, arg>>

PowiNext ==
    \/ PowiEnter
    \/ PowiRecurse
    \/ PowiReturn
    \/ (fn \in {"powi_returned", "powi_aborted"} /\ Discard)

SpecPowi == Init /\ [][PowiNext]_vars

\* C21: the vector powi is total over its exponent: for every n, zero and
\* the negative exponents included, the recursion ends without exhausting the
\* stack, and the value it returns is the base raised to the n-th power.
C21_PowiTotal ==
    /\ fn # "powi_aborted"
    /\ fn = "powi_returned" =>
           \A i \in 1..Lanes : res[i] = StdPowi(arg[i], crv[1])

\* C23: for every exponent n >= 1 the recursion of the vector powi descends
\* through strictly smaller exponents that stay at least 1, so it reaches the
\* base case n = 1 and never exhausts the stack; the value returned is the
\* product of n factors of the base in every lane, and it is the value of
\* the scalar powi for the exponents 2, 3, 4 and 5.
C23_PowiSquaring ==
    (fn \in {"powi", "powi_returned", "powi_aborted"} /\ crv[1] >= 1) =>
        /\ fn # "powi_aborted"
        /\ \A k \in 1..Len(crv) :
               /\ crv[k] >= 1
               /\ k > 1 => crv[k] < crv[k - 1]
        /\ fn = "powi_returned" =>
               /\ \A i \in 1..Lanes : res[i] = Pow(arg[i], crv[1])
               /\ crv[1] \in 2..5 =>
                      \A i \in 1..Lanes : res[i] = StdPowi(arg[i], crv[1])

\* powi(5) of the vector of halves has returned 1/32 in every lane
C23_Witness ==
    /\ fn = "powi_returned" /\ crv = <<5>>
    /\ arg = Splat(Q(1, 2)) /\ res = Splat(Q(1, 32))

\* the families that leave [0, 1] inside the interval
OvershootFns == BackFns \cup ElasticFns
InUnit(x) == FLe(Zero, x) /\ FLe(x, One)
NearUnit(x) == FLe(Q(-1, 1000000), x) /\ FLe(x, Q(1000001, 1000000))

HalfSelectFns ==
    PowerInOut \cup {"ease_in_out_back", "ease_in_out_bounce", "ease_in_out_circ",
                     "ease_in_out_curve"}

\* the recorded vector with 0.5 in lane 2 and the mirror image of lane 1 in
\* lane 3: lanes below, at and above 0.5 in one vector
MixedLanes ==
    SubSeq([i \in 1..Lanes |-> IF i = 2 THEN Q(1, 2)
                               ELSE IF i = 3 THEN FSub(One, arg[1])
                               ELSE arg[i]], 1, Lanes)

\* every lane of the vector result v of the call on the vector t is the
\* result of the scalar call on that lane
LanesAsScalar(v, t) ==
    \A i \in 1..Lanes : v[i] = Apply(fn, "scalar", t[i], <<CrvAt(i)>>)

\* C24: for the functions that are piecewise at 0.5, and a vector whose lanes
\* fall into different branches (below, at and above 0.5), every lane of the
\* result of the mask and select is the value the scalar if / else returns
\* for that lane.
C24_MaskSelect ==
    (fn \in HalfSelectFns /\ rep = "simd") =>
        /\ LanesAsScalar(res, arg)
        /\ LanesAsScalar(Apply(fn, "simd", MixedLanes, crv), MixedLanes)

\* ease_in_out_quad has been called on the vector <<0.3, 0.9, 0.9, ..>>: lane 1
\* holds 2 * 0.3^2 of the lower branch and lane 2 holds 1 - (-1.8 + 2)^2 / 2 of
\* the upper branch
C24_Witness ==
    /\ fn = "ease_in_out_quad" /\ rep = "simd"
    /\ arg = Vec(Q(3, 10), Q(9, 10))
    /\ res[1] = Q(18, 100) /\ res[2] = Q(98, 100)

\* the vector v with NaN in every lane but the first
OthersNaN(v) == SubSeq([i \in 1..Lanes |-> IF i = 1 THEN v[1] ELSE NaN], 1, Lanes)
\* the recorded argument with the mirror image of lane 1 (a value of the other
\* branch) in lane 1, lane 2 unchanged and NaN in the lanes after it
FirstMirrored ==
    SubSeq([i \in 1..Lanes |-> IF i = 1 THEN FSub(One, arg[1])
                               ELSE IF i = 2 THEN arg[2] ELSE NaN], 1, Lanes)
\* the vector v with NaN in the first lane
FirstNaN(v) == SubSeq([i \in 1..Lanes |-> IF i = 1 THEN NaN ELSE v[i]], 1, Lanes)

\* C25: lane i of the result of a vector call depends on lane i of the
\* argument (and of the curve parameter) only: the call with every other lane
\* of the argument and of the curve replaced by NaN returns the same first
\* lane, and the call with the first lane moved to 1 - t (into the other
\* branch), the first lane of the curve replaced by NaN and the lanes after
\* the second replaced by NaN returns the same second lane.
C25_LaneIndependence ==
    (fn # "none" /\ rep = "simd") =>
        LET c == to_curve("simd", crv)
            curved == fn \in CurveFns
        IN  /\ Apply(fn, "simd", OthersNaN(arg), IF curved THEN OthersNaN(c) ELSE crv)[1]
                   = res[1]
            /\ Apply(fn, "simd", FirstMirrored, IF curved THEN FirstNaN(c) ELSE crv)[2]
                   = res[2]

\* ease_out_bounce has been called on <<0.2, 0.9, 0.9, ..>>: lane 1 is in the
\* first and the other lanes are in the third branch of the function
C25_Witness ==
    /\ fn = "ease_out_bounce" /\ rep = "simd"
    /\ arg = Vec(Q(2, 10), Q(9, 10))
    /\ res[1] = Q(3025, 10000) /\ res[2] # res[1]

\* the two formulas of ease_in_out_back, with c2 = 1.70158 * 1.525
InOutBackFormula(t) ==
    LET c2 == FMul(Q(170158, 100000), Q(1525, 1000))
        c2p1 == FAdd(c2, One)
        u == FMul(Q(2, 1), t)
        w == FSub(u, Q(2, 1))
    IN  IF FLt(t, Q(1, 2))
        THEN FDiv(FMul(Pow(u, 2), FSub(FMul(c2p1, u), c2)), Q(2, 1))
        ELSE FDiv(FAdd(FMul(Pow(w, 2), FAdd(FMul(c2p1, w), c2)), Q(2, 1)), Q(2, 1))

\* C26: the scalar ease_in_out_back, which halves inside each branch, and the
\* vector ease_in_out_back, which selects the branch and halves after, return
\* the same value for every t: ((2t)^2 ((c2 + 1) 2t - c2)) / 2 for t < 0.5 and
\* ((2t - 2)^2 ((c2 + 1)(2t - 2) + c2) + 2) / 2 for t >= 0.5.
C26_InOutBack ==
    fn = "ease_in_out_back" =>
        \A i \in LaneIdx :
            /\ Within(ResAt(i), InOutBackFormula(ArgAt(i)))
            /\ rep = "simd" => res[i] = Scalar_ease_in_out_back(arg[i])

\* the vector ease_in_out_back has been called on <<0.3, 0.9, 0.9, ..>>: lane 1
\* holds an undershoot of the lower and lane 2 an overshoot of the upper
\* formula
C26_Witness ==
    /\ fn = "ease_in_out_back" /\ rep = "simd"
    /\ arg = Vec(Q(3, 10), Q(9, 10))
    /\ FLt(res[1], Zero) /\ FLt(One, res[2])

\* the formula of branch k of ease_out_bounce, and the branch the scalar
\* if / else chain takes at t
BounceFormula(k, t) ==
    LET n1 == Q(75625, 10000)
        shift == <<Zero, Q(6, 11), Q(9, 11), Q(21, 22)>>
        offset == <<Zero, Q(3, 4), Q(15, 16), Q(63, 64)>>
    IN  FAdd(FMul(n1, Pow(FSub(t, shift[k]), 2)), offset[k])
BounceThresholds == <<Q(4, 11), Q(8, 11), Q(10, 11)>>
BounceChain(t) ==
    IF FLt(t, BounceThresholds[1]) THEN 1
    ELSE IF FLt(t, BounceThresholds[2]) THEN 2
    ELSE IF FLt(t, BounceThresholds[3]) THEN 3
    ELSE 4

\* C27: in every lane, inside [0, 1], outside it and at the thresholds
\* 1/2.75, 2/2.75 and 2.5/2.75, the nested select of the vector ease_out_bounce
\* returns the formula of the branch the scalar if / else chain takes, and the
\* value of the scalar function; at each threshold the formulas of the two
\* adjacent branches agree, with the values 1, 1 and 1.
C27_BounceSelect ==
    (fn = "ease_out_bounce" /\ rep = "simd") =>
        \A i \in 1..Lanes :
            /\ res[i] = BounceFormula(BounceChain(arg[i]), arg[i])
            /\ res[i] = Scalar_ease_out_bounce(arg[i])
            /\ \A k \in 1..3 :
                   arg[i] = BounceThresholds[k] =>
                       /\ BounceChain(arg[i]) = k + 1
                       /\ BounceFormula(k, arg[i]) = One
                       /\ BounceFormula(k + 1, arg[i]) = One
                       /\ res[i] = One

\* the vector ease_out_bounce has been called with the threshold 2/2.75 in lane
\* 1 and 0.9 in the other lanes: lane 1 holds 1 and lane 2 a value of the
\* third branch
C27_Witness ==
    /\ fn = "ease_out_bounce" /\ rep = "simd"
    /\ arg = Vec(Q(8, 11), Q(9, 10))
    /\ res[1] = One /\ res[2] = BounceFormula(3, Q(9, 10))

\* C28: with a vector curve parameter whose lanes lie on both sides of the
\* guard, the vector ease_in_curve returns exactly t in the lanes with
\* |curve| < 0.001 and a - a * grow^t in the other lanes; the value the
\* formula has in a guarded lane, NaN for the curve 0 where a is infinite, is
\* not the value of that lane.
C28_CurveGuardLanes ==
    (fn = "ease_in_curve" /\ rep = "simd" /\ Len(crv) = Lanes) =>
        LET normal == CurveFormula("simd", arg, crv)
        IN  \A i \in 1..Lanes :
                /\ FLt(FAbs(crv[i]), Q(1, 1000)) =>
                       /\ res[i] = arg[i]
                       /\ crv[i] = Zero => (IsNaN(normal[i]) /\ ~IsNaN(res[i]))
                /\ ~FLt(FAbs(crv[i]), Q(1, 1000)) => res[i] = normal[i]

\* the vector ease_in_curve has been called on <<0.3, 0.9, 0.9, ..>> with the
\* curve 0 in lane 1 and 1.0 in the other lanes: lane 1 holds 0.3, lane 2 the
\* value of the formula, which is not 0.9
C28_Witness ==
    /\ fn = "ease_in_curve" /\ rep = "simd"
    /\ crv = Vec(Zero, One)
    /\ arg = Vec(Q(3, 10), Q(9, 10))
    /\ res[1] = Q(3, 10)
    /\ FLt(res[2], Q(9, 10))

(***************************************************************************)
(* Calls of ease_in_curve with curve values far below zero                 *)
(***************************************************************************)
\* a client calls ease_in_curve with a curve whose exponential underflows to
\* zero (-200 in f32, -800 in f32 and f64), as a scalar parameter or in the
\* first lane of a vector parameter
EaseInCurveFar ==
    /\ fn = "none"
    /\ \E T \in Reps : \E a \in Args("ease_in_curve", T) :
       \E c \in {Q(-200, 1), Q(-800, 1)} :
       \E p \in IF T = "scalar" THEN {<<c>>} ELSE {<<c>>, Vec(c, One)} :
          /\ fn' = "ease_in_curve"
          /\ rep' = T
          /\ arg' = a
          /\ crv' = p
          /\ res' = ease_in_curve(T, a, p)

FarNext == EaseInCurveFar \/ Discard

SpecFar == Init /\ [][FarNext]_vars

\* C29: for a curve so far below zero that grow = exp(curve) is 0, the vector
\* ease_in_curve has at t = 0, in every such lane, the value of the scalar
\* ease_in_curve, which is a - a * 0^0 = 0.
C29_UnderflowAgreement ==
    (fn = "ease_in_curve" /\ rep = "simd") =>
        \A i \in 1..Lanes :
            (StdExp(CrvAt(i)) = Zero /\ arg[i] = Zero) =>
                /\ Scalar_ease_in_curve(arg[i], <<CrvAt(i)>>) = Zero
                /\ res[i] = Scalar_ease_in_curve(arg[i], <<CrvAt(i)>>)

\* the in_out functions of the power, sine, circ, expo, bounce and curve
\* families, and the out function of the family of each
ComposedFns ==
    PowerInOut \cup {"ease_in_out_sine", "ease_in_out_circ", "ease_in_out_expo",
                     "ease_in_out_bounce", "ease_in_out_curve"}
OutOfInOut(f) ==
    CASE f = "ease_in_out_quad" -> "ease_out_quad"
      [] f = "ease_in_out_cubic" -> "ease_out_cubic"
      [] f = "ease_in_out_quart" -> "ease_out_quart"
      [] f = "ease_in_out_quint" -> "ease_out_quint"
      [] f = "ease_in_out_sine" -> "ease_out_sine"
      [] f = "ease_in_out_circ" -> "ease_out_circ"
      [] f = "ease_in_out_expo" -> "ease_out_expo"
      [] f = "ease_in_out_bounce" -> "ease_out_bounce"
      [] f = "ease_in_out_curve" -> "ease_out_curve"

\* C30: for the power, sine, circ, expo, bounce and curve families, in every
\* lane, ease_in_out_X(t) = ease_in_X(2t) / 2 for t < 0.5 and
\* ease_in_out_X(t) = (1 + ease_out_X(2t - 1)) / 2 for t >= 0.5, within 1e-6.
C30_InOutComposition ==
    fn \in ComposedFns =>
        LET lower == Apply(InOf[OutOfInOut(fn)], rep, Doubled, crv)
            upper == Apply(OutOfInOut(fn), rep, DoubledUpper, crv)
        IN  \A i \in LaneIdx :
                IF FLt(ArgAt(i), Q(1, 2))
                THEN Within(ResAt(i), FDiv(LaneOf(lower, i), Q(2, 1)))
                ELSE Within(ResAt(i), FDiv(FAdd(One, LaneOf(upper, i)), Q(2, 1)))

\* ease_in_out_sine has been called at 0.3 and holds half of ease_in_sine(0.6),
\* a value that is not ease_in_sine(0.3)
C30_Witness ==
    /\ fn = "ease_in_out_sine" /\ rep = "scalar" /\ arg = Q(3, 10)
    /\ Within(res, FDiv(ease_in_sine("scalar", Q(6, 10)), Q(2, 1)))
    /\ ~Within(res, ease_in_sine("scalar", Q(3, 10)))
=============================================================================
